---------------------------- MODULE Spec2Model ----------------------------
(***************************************************************************)
(* README -> landing page: the extraction engine parseReadme               *)
(* (src/lib/types.ts, lines 67-747) as a state machine.                    *)
(*                                                                         *)
(* The input is the markdown tree the external parser hands to the         *)
(* extractors (root.children); one action per statement of parseReadme.    *)
(* A JavaScript string is a sequence of characters, a character a          *)
(* one-element TLA+ string, so that toLowerCase, includes, startsWith,     *)
(* trim, replace and substring are computed and not assumed.               *)
(***************************************************************************)
EXTENDS Integers, Sequences, FiniteSets, TLC

(***************************************************************************)
(* Bounds of the model.                                                    *)
(***************************************************************************)
\* Longest document: the number of pieces (a node, or a heading with its
\* content) a document is put together from.
MaxChunks == 3
\* The number of calls of parseReadme on one text.
MaxCalls == 2
\* The number of edits of the text of the editor.
MaxEdits == 3
\* The number of models the landing page is given.
MaxRenders == 2

(***************************************************************************)
(* Strings.                                                                *)
(***************************************************************************)
Upper == <<"A","B","C","D","E","F","G","H","I","J","K","L","M",
           "N","O","P","Q","R","S","T","U","V","W","X","Y","Z">>
Lowers == <<"a","b","c","d","e","f","g","h","i","j","k","l","m",
            "n","o","p","q","r","s","t","u","v","w","x","y","z">>
Digits == {"0","1","2","3","4","5","6","7","8","9"}

\* The characters String.prototype.trim and the regex class \s treat as space.
Whitespace == {" ", "\n", "\t"}

LowerOf == [c \in {Upper[i] : i \in 1..26} |->
             Lowers[CHOOSE i \in 1..26 : Upper[i] = c]]

LowerChar(c) == IF c \in DOMAIN LowerOf THEN LowerOf[c] ELSE c

\* s.toLowerCase()
ToLowerCase(s) == [i \in 1..Len(s) |-> LowerChar(s[i])]

\* s.startsWith(p)
StartsWith(s, p) == Len(p) <= Len(s) /\ SubSeq(s, 1, Len(p)) = p

\* s.includes(sub)
Includes(s, sub) ==
  \/ sub = <<>>
  \/ \E i \in 0..(Len(s) - Len(sub)) :
       s[i + 1] = sub[1] /\ SubSeq(s, i + 1, i + Len(sub)) = sub

\* The index of the first character of s from i on that is not whitespace
\* (Len(s) + 1 when there is none).
RECURSIVE FirstNonSpace(_, _)
FirstNonSpace(s, i) ==
  IF i > Len(s) \/ s[i] \notin Whitespace THEN i
  ELSE FirstNonSpace(s, i + 1)

\* The index of the last character of s up to i that is not whitespace
\* (0 when there is none).
RECURSIVE LastNonSpace(_, _)
LastNonSpace(s, i) ==
  IF i < 1 \/ s[i] \notin Whitespace THEN i
  ELSE LastNonSpace(s, i - 1)

\* s.trim()
Trim(s) == SubSeq(s, FirstNonSpace(s, 1), LastNonSpace(s, Len(s)))

\* s.substring(0, n)
Substring0(s, n) == SubSeq(s, 1, IF n < Len(s) THEN n ELSE Len(s))

\* The concatenation of a sequence of sequences.
RECURSIVE Concat(_)
Concat(ss) == IF ss = <<>> THEN <<>> ELSE Head(ss) \o Concat(Tail(ss))

\* parts.join(sep)
RECURSIVE Join(_, _)
Join(ss, sep) ==
  IF ss = <<>> THEN <<>>
  ELSE IF Len(ss) = 1 THEN Head(ss)
  ELSE Head(ss) \o sep \o Join(Tail(ss), sep)

\* A string of n copies of the character c.
Rep(c, n) == [i \in 1..n |-> c]

(***************************************************************************)
(* The markdown tree (mdast): every node is a record of one shape.         *)
(***************************************************************************)
Node(t, d, v, u, a, l, k) ==
  [type |-> t, depth |-> d, value |-> v, url |-> u, alt |-> a, lang |-> l,
   children |-> k]

Text(v)         == Node("text", 0, v, <<>>, <<>>, <<>>, <<>>)
Link(u, k)      == Node("link", 0, <<>>, u, <<>>, <<>>, k)
Image(u, a)     == Node("image", 0, <<>>, u, a, <<>>, <<>>)
Strong(k)       == Node("strong", 0, <<>>, <<>>, <<>>, <<>>, k)
Heading(d, k)   == Node("heading", d, <<>>, <<>>, <<>>, <<>>, k)
Paragraph(k)    == Node("paragraph", 0, <<>>, <<>>, <<>>, <<>>, k)
Blockquote(k)   == Node("blockquote", 0, <<>>, <<>>, <<>>, <<>>, k)
List(k)         == Node("list", 0, <<>>, <<>>, <<>>, <<>>, k)
ListItem(k)     == Node("listItem", 0, <<>>, <<>>, <<>>, <<>>, k)
Code(l, v)      == Node("code", 0, v, <<>>, <<>>, l, <<>>)

\* extractTextFromNode: the concatenated value of the text leaves.
RECURSIVE extractTextFromNode(_)
extractTextFromNode(node) ==
  IF node.type = "text" THEN node.value
  ELSE Concat([i \in 1..Len(node.children) |->
                 extractTextFromNode(node.children[i])])

\* unist-util-visit: the nodes of a subtree in depth-first pre-order.
RECURSIVE VisitNode(_)
VisitNode(node) ==
  <<node>> \o Concat([i \in 1..Len(node.children) |->
                        VisitNode(node.children[i])])

\* visit(ast, fn): every node below the root, in document order.
Visit(ast) == Concat([i \in 1..Len(ast) |-> VisitNode(ast[i])])

\* visit(ast, type, fn): the nodes of one type, in document order.
VisitType(ast, t) == SelectSeq(Visit(ast), LAMBDA n : n.type = t)

(***************************************************************************)
(* The fixed lookup tables and literals of the extractors.                 *)
(***************************************************************************)
priorityOrder ==
  << <<"h","o","w","-","i","t","-","w","o","r","k","s">>,
     <<"h","o","w"," ","i","t"," ","w","o","r","k","s">>,
     <<"q","u","i","c","k","-","s","t","a","r","t">>,
     <<"q","u","i","c","k"," ","s","t","a","r","t">>,
     <<"i","n","s","t","a","l","l","a","t","i","o","n">>,
     <<"i","n","s","t","a","l","l">>,
     <<"g","e","t","t","i","n","g","-","s","t","a","r","t","e","d">>,
     <<"g","e","t","t","i","n","g"," ","s","t","a","r","t","e","d">>,
     <<"u","s","a","g","e">>,
     <<"e","x","a","m","p","l","e","s">>,
     <<"d","e","m","o">>,
     <<"c","o","n","f","i","g","u","r","a","t","i","o","n">>,
     <<"a","p","i">>,
     <<"d","o","c","u","m","e","n","t","a","t","i","o","n">>,
     <<"t","e","c","h","-","s","t","a","c","k">>,
     <<"t","e","c","h"," ","s","t","a","c","k">>,
     <<"p","r","o","j","e","c","t","-","s","t","r","u","c","t","u","r","e">>,
     <<"p","r","o","j","e","c","t"," ","s","t","r","u","c","t","u","r","e">>,
     <<"i","d","e","a","-","c","a","t","e","g","o","r","i","e","s">>,
     <<"i","d","e","a"," ","c","a","t","e","g","o","r","i","e","s">>,
     <<"c","o","n","t","r","i","b","u","t","i","n","g">>,
     <<"r","o","a","d","m","a","p">>,
     <<"f","a","q">>,
     <<"t","r","o","u","b","l","e","s","h","o","o","t","i","n","g">>,
     <<"c","h","a","n","g","e","l","o","g">>,
     <<"a","c","k","n","o","w","l","e","d","g","m","e","n","t","s">>,
     <<"l","i","c","e","n","s","e">>,
     <<"c","o","n","n","e","c","t">> >>

demoKeywords ==
  << <<"d","e","m","o">>,
     <<"l","i","v","e">>,
     <<"t","r","y">>,
     <<"w","e","b","s","i","t","e">>,
     <<"p","l","a","y","g","r","o","u","n","d">>,
     <<"a","p","p">>,
     <<"d","e","p","l","o","y">> >>

sectionMap ==
  << <<<<"u","s","a","g","e">>,
        <<"H","o","w"," ","i","t"," ","w","o","r","k","s">>>>,
     <<<<"q","u","i","c","k","s","t","a","r","t">>,
        <<"H","o","w"," ","i","t"," ","w","o","r","k","s">>>>,
     <<<<"g","e","t","t","i","n","g"," ","s","t","a","r","t","e","d">>,
        <<"H","o","w"," ","i","t"," ","w","o","r","k","s">>>>,
     <<<<"h","o","w"," ","i","t"," ","w","o","r","k","s">>,
        <<"H","o","w"," ","i","t"," ","w","o","r","k","s">>>>,
     <<<<"i","n","s","t","a","l","l","a","t","i","o","n">>,
        <<"I","n","s","t","a","l","l">>>>,
     <<<<"s","e","t","u","p">>,
        <<"I","n","s","t","a","l","l">>>>,
     <<<<"q","u","i","c","k"," ","s","t","a","r","t">>,
        <<"Q","u","i","c","k"," ","S","t","a","r","t">>>>,
     <<<<"p","r","o","j","e","c","t"," ","s","t","r","u","c","t","u","r","e">>,
        <<"P","r","o","j","e","c","t"," ","S","t","r","u","c","t","u","r","e">>>>,
     <<<<"i","d","e","a"," ","c","a","t","e","g","o","r","i","e","s">>,
        <<"I","d","e","a"," ","C","a","t","e","g","o","r","i","e","s">>>>,
     <<<<"t","e","c","h"," ","s","t","a","c","k">>,
        <<"T","e","c","h"," ","S","t","a","c","k">>>>,
     <<<<"c","o","n","f","i","g","u","r","a","t","i","o","n">>,
        <<"C","o","n","f","i","g","u","r","a","t","i","o","n">>>>,
     <<<<"o","p","t","i","o","n","s">>,
        <<"C","o","n","f","i","g","u","r","a","t","i","o","n">>>>,
     <<<<"r","o","a","d","m","a","p">>,
        <<"R","o","a","d","m","a","p">>>>,
     <<<<"t","o","d","o">>,
        <<"R","o","a","d","m","a","p">>>>,
     <<<<"c","o","n","t","r","i","b","u","t","i","n","g">>,
        <<"C","o","n","t","r","i","b","u","t","i","n","g">>>>,
     <<<<"l","i","c","e","n","s","e">>,
        <<"L","i","c","e","n","s","e">>>>,
     <<<<"f","a","q">>,
        <<"F","A","Q">>>>,
     <<<<"c","o","n","n","e","c","t">>,
        <<"C","o","n","n","e","c","t">>>>,
     <<<<"l","i","v","e"," ","d","e","m","o">>,
        <<"L","i","v","e"," ","D","e","m","o">>>>,
     <<<<"a","c","k","n","o","w","l","e","d","g","m","e","n","t","s">>,
        <<"A","c","k","n","o","w","l","e","d","g","m","e","n","t","s">>>> >>

sUntitledProject ==
  <<"U","n","t","i","t","l","e","d"," ","P","r","o","j","e","c","t">>
sTaglinePlaceholder ==
  <<"A"," ","g","r","e","a","t"," ","p","r","o","j","e","c","t"," ","t","h",
    "a","t"," ","s","o","l","v","e","s"," ","r","e","a","l"," ","p","r","o",
    "b","l","e","m","s",".">>
sEllipsis == <<".",".",".">>
sInstall == <<"i","n","s","t","a","l","l">>
sQuickStartWords == <<"q","u","i","c","k"," ","s","t","a","r","t">>
sInstallation == <<"i","n","s","t","a","l","l","a","t","i","o","n">>
sSetup == <<"s","e","t","u","p">>
sQuickStartSlug == <<"q","u","i","c","k","-","s","t","a","r","t">>
sGetStarted == <<"G","e","t"," ","S","t","a","r","t","e","d">>
sHash == <<"#">>
sGithubCom == <<"g","i","t","h","u","b",".","c","o","m">>
sViewOnGitHub == <<"V","i","e","w"," ","o","n"," ","G","i","t","H","u","b">>
sHttp == <<"h","t","t","p">>
sTwitterCom == <<"t","w","i","t","t","e","r",".","c","o","m">>
sXCom == <<"x",".","c","o","m">>
sLinkedinCom == <<"l","i","n","k","e","d","i","n",".","c","o","m">>
sBluesky == <<"b","l","u","e","s","k","y">>
sWww == <<"w","w","w",".">>
\* The code fence: three backticks (a backtick is the character "BACKTICK").
sFence == <<"BACKTICK","BACKTICK","BACKTICK">>
sNewline == <<"\n">>
sBullet == <<"-"," ">>
sQuoteMark == <<">"," ">>
sBlankLine == <<"\n","\n">>
sHyphen == <<"-">>
sSpace == <<" ">>

\* The decorative glyphs the section segmenter strips from a heading: one
\* character of the model per glyph of the regex class.
Glyphs == {"sparkles", "target", "rocket", "folder", "bulb", "tools",
           "memo", "globe", "page", "link", "pray"}

\* The characters the id regex [^a-z0-9-] keeps.
SlugChars == {Lowers[i] : i \in 1..26} \cup Digits \cup {"-"}

(***************************************************************************)
(* extractTitle                                                            *)
(***************************************************************************)
\* Faulty variant of TitleFromHeadings: the first depth-1 heading decides, also
\* when its text is empty.
TitleFromHeadings_First(headings, title) ==
  LET h1 == SelectSeq(headings, LAMBDA n : n.depth = 1)
  IN  IF h1 = <<>> THEN title ELSE extractTextFromNode(Head(h1))

\* visit(ast, 'heading'): the first depth-1 heading seen while title is
\* still falsy sets it.
RECURSIVE TitleFromHeadings(_, _)
TitleFromHeadings(headings, title) ==
  IF headings = <<>> THEN title
  ELSE LET node == Head(headings)
       IN  IF node.depth = 1 /\ title = <<>>
           THEN TitleFromHeadings(Tail(headings), extractTextFromNode(node))
           ELSE TitleFromHeadings(Tail(headings), title)

\* visit(ast, 'paragraph'): the first paragraph whose trimmed text is not
\* empty, trimmed.
RECURSIVE TitleFromParagraphs(_, _)
TitleFromParagraphs(paragraphs, title) ==
  IF paragraphs = <<>> THEN title
  ELSE LET text == extractTextFromNode(Head(paragraphs))
       IN  IF title = <<>> /\ Trim(text) # <<>>
           THEN TitleFromParagraphs(Tail(paragraphs), Trim(text))
           ELSE TitleFromParagraphs(Tail(paragraphs), title)

extractTitle(ast) ==
  LET t1 == TitleFromHeadings(VisitType(ast, "heading"), <<>>)
      t2 == IF t1 = <<>>
            THEN TitleFromParagraphs(VisitType(ast, "paragraph"), <<>>)
            ELSE t1
  IN  IF t2 # <<>> THEN t2 ELSE sUntitledProject

(***************************************************************************)
(* extractTagline                                                          *)
(***************************************************************************)
\* A tagline candidate must be shorter than this.
ShortLimit == 200
\* A tagline longer than this is truncated ...
TaglineMax == 160
\* ... to this many characters, followed by the ellipsis.
TaglineKeep == 157

\* The loop over ast.children: i is the index of the node looked at, the
\* other parameters are the loop's variables; break returns tagline.
RECURSIVE TaglineScan(_, _, _, _, _)
TaglineScan(children, i, foundH1, paragraphCount, tagline) ==
  IF i > Len(children) THEN tagline
  ELSE
    LET node == children[i]
    IN  IF node.type = "heading" /\ node.depth = 1
        THEN TaglineScan(children, i + 1, TRUE, paragraphCount, tagline)
        ELSE IF ~foundH1
        THEN TaglineScan(children, i + 1, foundH1, paragraphCount, tagline)
        ELSE IF node.type = "paragraph"
        THEN LET text == Trim(extractTextFromNode(node))
             IN  IF text = <<>>
                 THEN TaglineScan(children, i + 1, foundH1, paragraphCount,
                                  tagline)
                 ELSE IF paragraphCount + 1 = 1 /\ Len(text) < ShortLimit
                 THEN text
                 ELSE IF tagline = <<>> /\ Len(text) < ShortLimit
                 THEN TaglineScan(children, i + 1, foundH1,
                                  paragraphCount + 1, text)
                 ELSE TaglineScan(children, i + 1, foundH1,
                                  paragraphCount + 1, tagline)
        ELSE IF node.type = "heading" /\ node.depth >= 2 /\ tagline = <<>>
        THEN tagline
        ELSE TaglineScan(children, i + 1, foundH1, paragraphCount, tagline)

\* Faulty variant of TaglineAfterH1: a later short paragraph replaces an earlier
\* one (the last short paragraph after the first depth-1 heading wins).
TaglineAfterH1_LastWins(ast) ==
  LET h1    == {i \in 1..Len(ast) :
                  ast[i].type = "heading" /\ ast[i].depth = 1}
      short == {i \in 1..Len(ast) :
                  /\ \E h \in h1 : h < i
                  /\ ast[i].type = "paragraph"
                  /\ Trim(extractTextFromNode(ast[i])) # <<>>
                  /\ Len(Trim(extractTextFromNode(ast[i]))) < ShortLimit}
  IN  IF short = {} THEN <<>>
      ELSE Trim(extractTextFromNode(
             ast[CHOOSE i \in short : \A j \in short : i >= j]))

\* The heading-adjacent scan of extractTagline.
TaglineAfterH1(ast) == TaglineScan(ast, 1, FALSE, 0, <<>>)

\* Faulty variant of TaglineFromParagraphs: the first paragraph with text,
\* whatever its length.
RECURSIVE TaglineFromParagraphs_AnyLength(_, _)
TaglineFromParagraphs_AnyLength(paragraphs, tagline) ==
  IF paragraphs = <<>> THEN tagline
  ELSE LET text == Trim(extractTextFromNode(Head(paragraphs)))
       IN  IF tagline = <<>> /\ text # <<>>
           THEN TaglineFromParagraphs_AnyLength(Tail(paragraphs), text)
           ELSE TaglineFromParagraphs_AnyLength(Tail(paragraphs), tagline)

\* visit(ast, 'paragraph'): the first paragraph anywhere whose trimmed text
\* is not empty and shorter than ShortLimit.
RECURSIVE TaglineFromParagraphs(_, _)
TaglineFromParagraphs(paragraphs, tagline) ==
  IF paragraphs = <<>> THEN tagline
  ELSE LET text == Trim(extractTextFromNode(Head(paragraphs)))
       IN  IF tagline = <<>> /\ text # <<>> /\ Len(text) < ShortLimit
           THEN TaglineFromParagraphs(Tail(paragraphs), text)
           ELSE TaglineFromParagraphs(Tail(paragraphs), tagline)

\* The text extractTagline selects, before truncation.
TaglineSelected(ast) ==
  LET t1 == TaglineAfterH1(ast)
  IN  IF t1 = <<>>
      THEN TaglineFromParagraphs(VisitType(ast, "paragraph"), <<>>)
      ELSE t1

\* Faulty variant of Truncate: one character too many is kept.
Truncate_OffByOne(tagline) ==
  IF Len(tagline) > TaglineMax
  THEN Substring0(tagline, TaglineKeep + 1) \o sEllipsis
  ELSE tagline

\* if (tagline.length > 160) tagline = tagline.substring(0, 157) + '...'
Truncate(tagline) ==
  IF Len(tagline) > TaglineMax
  THEN Substring0(tagline, TaglineKeep) \o sEllipsis
  ELSE tagline

extractTagline(ast) ==
  LET t == Truncate(TaglineSelected(ast))
  IN  IF t # <<>> THEN t ELSE sTaglinePlaceholder

(***************************************************************************)
(* extractLinks                                                            *)
(***************************************************************************)
\* Every link node with a url and a non-empty label, in document order.
extractLinks(ast) ==
  LET nodes == VisitType(ast, "link")
      keep  == SelectSeq(nodes, LAMBDA n :
                 n.url # <<>> /\ extractTextFromNode(n) # <<>>)
  IN  [i \in 1..Len(keep) |->
         [label |-> extractTextFromNode(keep[i]), href |-> keep[i].url]]

(***************************************************************************)
(* extractSections                                                         *)
(***************************************************************************)
\* s.replace(/\s+/g, '-'): every run of whitespace becomes one hyphen.
RECURSIVE ReplaceWhitespaceRuns(_, _)
ReplaceWhitespaceRuns(s, i) ==
  IF i > Len(s) THEN <<>>
  ELSE IF s[i] \in Whitespace
  THEN IF i > 1 /\ s[i - 1] \in Whitespace
       THEN ReplaceWhitespaceRuns(s, i + 1)
       ELSE sHyphen \o ReplaceWhitespaceRuns(s, i + 1)
  ELSE <<s[i]>> \o ReplaceWhitespaceRuns(s, i + 1)

\* s.replace(/[glyphs]/g, '')
StripGlyphs(s) == SelectSeq(s, LAMBDA c : c \notin Glyphs)

\* headingTextLower: lower-cased, glyph-stripped, trimmed.
HeadingTextLower(headingText) == Trim(StripGlyphs(ToLowerCase(headingText)))

\* Faulty variant of SectionId: no character is removed.
SectionId_KeepAll(headingText) ==
  ReplaceWhitespaceRuns(HeadingTextLower(headingText), 1)

\* The id of a section.
SectionId(headingText) ==
  SelectSeq(ReplaceWhitespaceRuns(HeadingTextLower(headingText), 1),
            LAMBDA c : c \in SlugChars)

\* sectionMap[headingTextLower] || glyph-stripped, trimmed heading text.
SectionTitle(headingText) ==
  LET key == HeadingTextLower(headingText)
      hit == {i \in 1..Len(sectionMap) : sectionMap[i][1] = key}
  IN  IF hit # {} THEN sectionMap[CHOOSE i \in hit : TRUE][2]
      ELSE Trim(StripGlyphs(headingText))

\* '#'.repeat(depth)
HashMarks(depth) == [i \in 1..depth |-> "#"]

\* nodeToString: one top-level node re-serialized as markdown.
nodeToString(node) ==
  CASE node.type = "text"       -> node.value
    [] node.type = "paragraph"  -> extractTextFromNode(node)
    [] node.type = "code"       ->
         sFence \o node.lang \o sNewline \o node.value \o sNewline \o sFence
    [] node.type = "list"       ->
         Concat([i \in 1..Len(node.children) |->
                   sBullet \o extractTextFromNode(node.children[i])
                           \o sNewline])
    [] node.type = "blockquote" -> sQuoteMark \o extractTextFromNode(node)
    [] node.type = "heading"    ->
         HashMarks(node.depth) \o sSpace \o extractTextFromNode(node)
    [] OTHER                    -> extractTextFromNode(node)

\* contentNodes.map(nodeToString).join('\n\n')
ContentMarkdown(contentNodes) ==
  Join([i \in 1..Len(contentNodes) |-> nodeToString(contentNodes[i])],
       sBlankLine)

\* Faulty variant of SaveSection: the section is pushed whatever its
\* markdown.
SaveSection_KeepBlank(sections, current, contentNodes) ==
  IF current # <<>>
  THEN Append(sections,
              [id |-> current[1].id, title |-> current[1].title,
               content |-> Trim(ContentMarkdown(contentNodes))])
  ELSE sections

\* "Save previous section": pushed only when its markdown is not blank.
SaveSection(sections, current, contentNodes) ==
  IF current # <<>> /\ Trim(ContentMarkdown(contentNodes)) # <<>>
  THEN Append(sections,
              [id |-> current[1].id, title |-> current[1].title,
               content |-> Trim(ContentMarkdown(contentNodes))])
  ELSE sections

\* The loop over ast.children; current is <<>> (null) or <<section>>.
RECURSIVE SectionScan(_, _, _, _, _, _)
SectionScan(children, i, sections, current, contentNodes, skipUntilFirstH2) ==
  IF i > Len(children) THEN SaveSection(sections, current, contentNodes)
  ELSE
    LET node == children[i]
        isH2 == node.type = "heading" /\ node.depth >= 2
    IN  IF skipUntilFirstH2 /\ ~isH2
        THEN SectionScan(children, i + 1, sections, current, contentNodes,
                         skipUntilFirstH2)
        ELSE IF isH2
        THEN LET headingText == extractTextFromNode(node)
             IN  SectionScan(children, i + 1,
                   SaveSection(sections, current, contentNodes),
                   << [id |-> SectionId(headingText),
                       title |-> SectionTitle(headingText),
                       content |-> <<>>] >>,
                   <<>>, FALSE)
        ELSE IF current # <<>>
        THEN SectionScan(children, i + 1, sections, current,
                         Append(contentNodes, node), FALSE)
        ELSE SectionScan(children, i + 1, sections, current, contentNodes,
                         FALSE)

extractSections(ast) == SectionScan(ast, 1, <<>>, <<>>, <<>>, TRUE)

(***************************************************************************)
(* extractCTA                                                              *)
(***************************************************************************)
\* demoKeywords.some(k => lowerLabel.includes(k) || lowerHref.includes(k))
HasDemoKeyword(link) ==
  LET lowerLabel == ToLowerCase(link.label)
      lowerHref  == ToLowerCase(link.href)
  IN  \E k \in 1..Len(demoKeywords) :
        \/ Includes(lowerLabel, demoKeywords[k])
        \/ Includes(lowerHref, demoKeywords[k])

\* Faulty variant of IsActualUrl: only the bare placeholder is refused.
IsActualUrl_BareOnly(href) == href # sHash

\* "Prefer actual URLs over placeholders".
IsActualUrl(href) == ~StartsWith(href, sHash) /\ href # sHash

\* The links the first loop of extractCTA returns on.
IsDemoLink(link) == HasDemoKeyword(link) /\ IsActualUrl(link.href)

\* The predicate of hasInstallation and of installSection.
IsInstallSection(s) ==
  \/ Includes(ToLowerCase(s.title), sInstall)
  \/ Includes(ToLowerCase(s.title), sQuickStartWords)
  \/ Includes(s.id, sInstallation)
  \/ Includes(s.id, sSetup)
  \/ Includes(s.id, sQuickStartSlug)

\* links.find(l => l.href.includes('github.com'))
IsGithubLink(link) == Includes(link.href, sGithubCom)

\* array.find: the first of the indices hits of the elements satisfying
\* the predicate, 0 for none.
FirstIndex(hits) ==
  IF hits = {} THEN 0 ELSE CHOOSE i \in hits : \A j \in hits : i <= j

\* The indices of the links the keyword loop accepts, of the installation
\* sections and of the GitHub links.
DemoLinks(links) == {i \in 1..Len(links) : IsDemoLink(links[i])}
InstallSections(sections) ==
  {i \in 1..Len(sections) : IsInstallSection(sections[i])}
GithubLinks(links) == {i \in 1..Len(links) : IsGithubLink(links[i])}

\* Faulty variant of InstallHref: the fixed anchor '#install'.
InstallHref_Fixed(sections) == sHash \o sInstall

\* The href of the install step: '#' + installSection.id.
InstallHref(sections) ==
  sHash \o sections[FirstIndex(InstallSections(sections))].id

extractCTA(links, sections) ==
  LET demo   == FirstIndex(DemoLinks(links))
      github == FirstIndex(GithubLinks(links))
  IN  IF demo # 0 THEN links[demo]
      ELSE IF FirstIndex(InstallSections(sections)) # 0
      THEN [label |-> sGetStarted, href |-> InstallHref(sections)]
      ELSE IF github # 0
      THEN [label |-> sViewOnGitHub, href |-> links[github].href]
      ELSE [label |-> sGetStarted, href |-> sHash]

(***************************************************************************)
(* extractSecondaryLinks                                                   *)
(***************************************************************************)
\* array.slice(0, n)
Slice0(seq, n) ==
  LET end == IF n < 0 THEN (IF Len(seq) + n < 0 THEN 0 ELSE Len(seq) + n)
             ELSE IF n > Len(seq) THEN Len(seq) ELSE n
  IN  SubSeq(seq, 1, end)

\* The index of the first occurrence of sub in s, 0 for none.
IndexOf(s, sub) ==
  IF Includes(s, sub)
  THEN CHOOSE i \in 1..(Len(s) - Len(sub) + 1) :
         /\ SubSeq(s, i, i + Len(sub) - 1) = sub
         /\ \A j \in 1..(i - 1) : SubSeq(s, j, j + Len(sub) - 1) # sub
  ELSE 0

\* s.replace(sub, rep): the first occurrence only.
ReplaceFirst(s, sub, rep) ==
  LET i == IndexOf(s, sub)
  IN  IF i = 0 THEN s
      ELSE SubSeq(s, 1, i - 1) \o rep \o SubSeq(s, i + Len(sub), Len(s))

\* new URL(href).hostname: what lies between "://" and the next "/", "?"
\* or "#" (no port and no user part in the model's URLs).
Hostname(href) ==
  LET start == IndexOf(href, <<":", "/", "/">>)
      rest  == IF start = 0 THEN <<>> ELSE SubSeq(href, start + 3, Len(href))
      stops == {i \in 1..Len(rest) : rest[i] \in {"/", "?", "#"}}
  IN  IF stops = {} THEN rest
      ELSE SubSeq(rest, 1, (CHOOSE i \in stops : \A j \in stops : i <= j) - 1)

\* Faulty variant of SecondaryFilter: the CTA's href and the bare
\* placeholder are
\* not excluded.
SecondaryFilter_NoExclusion(link, cta) ==
  StartsWith(link.href, sHttp) \/ StartsWith(link.href, sHash)

\* The filter of extractSecondaryLinks: not the CTA's href, not the bare
\* placeholder, and an http(s) URL or an anchor.
SecondaryFilter(link, cta) ==
  /\ ~(link.href = cta.href \/ link.href = sHash)
  /\ (StartsWith(link.href, sHttp) \/ StartsWith(link.href, sHash))

IsSocialLink(link) ==
  \/ Includes(link.href, sTwitterCom)
  \/ Includes(link.href, sXCom)
  \/ Includes(link.href, sLinkedinCom)
  \/ Includes(link.href, sBluesky)

\* link.label || (hostname without 'www.' for an http URL, else the href)
SecondaryLabel(link) ==
  IF link.label # <<>> THEN link.label
  ELSE IF StartsWith(link.href, sHttp)
  THEN ReplaceFirst(Hostname(link.href), sWww, <<>>)
  ELSE link.href

\* The links are objects compared by identity (l !== github,
\* social.includes(l)): the model ranks their indices in the link list.
extractSecondaryLinks(links, cta) ==
  LET all      == [i \in 1..Len(links) |-> i]
      filtered == SelectSeq(all, LAMBDA i : SecondaryFilter(links[i], cta))
      gpos     == FirstIndex({p \in 1..Len(filtered) :
                                IsGithubLink(links[filtered[p]])})
      github   == IF gpos = 0 THEN 0 ELSE filtered[gpos]
      social   == SelectSeq(filtered, LAMBDA i : IsSocialLink(links[i]))
      others   == SelectSeq(filtered, LAMBDA i :
                    i # github /\ \A j \in 1..Len(social) : social[j] # i)
      r1       == IF github # 0 /\ links[github].href # cta.href
                  THEN <<github>> ELSE <<>>
      r2       == r1 \o Slice0(social, 2)
      r3       == r2 \o Slice0(others, 3 - Len(r2))
      result   == Slice0(r3, 4)
  IN  [k \in 1..Len(result) |->
         [label |-> SecondaryLabel(links[result[k]]),
          href  |-> links[result[k]].href]]

(***************************************************************************)
(* orderSectionsIntelligently                                              *)
(***************************************************************************)
\* The keys of new Map(sections.map(s => [s.id.toLowerCase(), s])), in
\* insertion order: a repeated id keeps the place of its first section.
RECURSIVE MapKeys(_, _)
MapKeys(sections, keys) ==
  IF sections = <<>> THEN keys
  ELSE LET id == ToLowerCase(Head(sections).id)
       IN  IF \E k \in 1..Len(keys) : keys[k] = id
           THEN MapKeys(Tail(sections), keys)
           ELSE MapKeys(Tail(sections), Append(keys, id))

\* sectionMap.get(id): the value of a repeated key is its last section.
MapGet(sections, id) ==
  sections[CHOOSE i \in 1..Len(sections) :
             /\ ToLowerCase(sections[i].id) = id
             /\ \A j \in (i + 1)..Len(sections) :
                  ToLowerCase(sections[j].id) # id]

\* Faulty variant of MatchesPriority: only an id equal to the keyword matches.
MatchesPriority_Exact(id, priorityId) == id = priorityId

\* id === priorityId || id.includes(priorityId) || priorityId.includes(id)
MatchesPriority(id, priorityId) ==
  id = priorityId \/ Includes(id, priorityId) \/ Includes(priorityId, id)

\* The outer loop over priorityOrder from index p on; added is the sequence
\* of keys placed so far. The inner loop takes the first key, in map order,
\* that is not added and matches, and breaks.
RECURSIVE PriorityPass(_, _, _)
PriorityPass(p, keys, added) ==
  IF p > Len(priorityOrder) THEN added
  ELSE
    LET free(k) == /\ \A a \in 1..Len(added) : added[a] # k
                   /\ MatchesPriority(k, priorityOrder[p])
        hit     == FirstIndex({i \in 1..Len(keys) : free(keys[i])})
    IN  IF hit = 0 THEN PriorityPass(p + 1, keys, added)
        ELSE PriorityPass(p + 1, keys, Append(added, keys[hit]))

orderSectionsIntelligently(sections) ==
  LET added   == PriorityPass(1, MapKeys(sections, <<>>), <<>>)
      ordered == [a \in 1..Len(added) |-> MapGet(sections, added[a])]
      rest    == SelectSeq(sections, LAMBDA s :
                   \A a \in 1..Len(added) : added[a] # ToLowerCase(s.id))
  IN  ordered \o rest

(***************************************************************************)
(* Optional values: undefined is the empty sequence, a defined value the   *)
(* sequence holding it.                                                    *)
(***************************************************************************)
Undefined == <<>>
Defined(v) == <<v>>

(***************************************************************************)
(* extractFeatures                                                         *)
(***************************************************************************)
featureKeywords ==
  << <<"f","e","a","t","u","r","e">>,
     <<"w","h","a","t","'","s">>,
     <<"w","h","y">>,
     <<"h","i","g","h","l","i","g","h","t">>,
     <<"b","e","n","e","f","i","t">>,
     <<"a","d","v","a","n","t","a","g","e">>,
     <<"c","a","p","a","b","i","l","i","t","y">>,
     <<"k","e","y">> >>

\* The glyph of text.includes(...) in the heading test.
sSparkles == <<"sparkles">>
sStars == <<"*","*">>
sColonSpace == <<":"," ">>

\* The characters of the regex class of dashMatch: the hyphen and the two
\* longer dashes.
Dashes == {"-", "endash", "emdash"}

\* The characters of the ranges of emojiMatch the model has.
Pictographs == Glyphs \cup {"zap"}

\* The characters of the class [-*+] of the list-marker regex.
ListMarkers == {"-", "*", "+"}

\* The characters the regex dot does not match.
LineBreaks == {"\n"}

\* The heading test of the feature search.
IsFeatureHeading(node) ==
  /\ node.type = "heading"
  /\ LET text == ToLowerCase(extractTextFromNode(node))
     IN  \/ \E k \in 1..Len(featureKeywords) : Includes(text, featureKeywords[k])
         \/ Includes(text, sSparkles)

\* The inner loop: the index of the first list among children[j..last]
\* that no heading of depth <= 2 precedes there (0: none).
RECURSIVE FeatureListFrom(_, _, _)
FeatureListFrom(children, j, last) ==
  IF j > last THEN 0
  ELSE IF children[j].type = "list" THEN j
  ELSE IF children[j].type = "heading" /\ children[j].depth <= 2 THEN 0
  ELSE FeatureListFrom(children, j + 1, last)

\* The lookahead of the feature search: the nodes at i+1 .. i+4.
LookAhead == 4

\* featureList: the list of the FIRST feature heading, as an index into
\* children (0: null); the outer loop breaks at the first feature heading.
FeatureList(children) ==
  LET i == FirstIndex({h \in 1..Len(children) : IsFeatureHeading(children[h])})
  IN  IF i = 0 THEN 0
      ELSE FeatureListFrom(children, i + 1,
             IF i + LookAhead < Len(children) THEN i + LookAhead
             ELSE Len(children))

\* s.replace(/^[-*+]\s+/, '')
StripListMarker(s) ==
  IF Len(s) >= 2 /\ s[1] \in ListMarkers /\ s[2] \in Whitespace
  THEN SubSeq(s, FirstNonSpace(s, 2), Len(s))
  ELSE s

\* s.endsWith(p)
EndsWith(s, p) ==
  Len(p) <= Len(s) /\ SubSeq(s, Len(s) - Len(p) + 1, Len(s)) = p

\* s.replace(/^\*\*|\*\*$/g, '')
StripStars(s) ==
  LET a == IF StartsWith(s, sStars) THEN SubSeq(s, 3, Len(s)) ELSE s
  IN  IF EndsWith(a, sStars) THEN SubSeq(a, 1, Len(a) - 2) ELSE a

NoLineBreak(s) == \A i \in 1..Len(s) : s[i] \notin LineBreaks

\* /^(.+?)\s*[dash]\s*(.+)$/ with a first group of k characters: the
\* index at which the second group starts (0: no match with this k).
DashDesc(s, k) ==
  LET p == FirstNonSpace(s, k + 1)
      Q == IF p <= Len(s) /\ s[p] \in Dashes /\ NoLineBreak(SubSeq(s, 1, k))
           THEN {q \in (p + 1)..Len(s) :
                   /\ \A w \in (p + 1)..(q - 1) : s[w] \in Whitespace
                   /\ NoLineBreak(SubSeq(s, q, Len(s)))}
           ELSE {}
  IN  IF Q = {} THEN 0 ELSE CHOOSE q \in Q : \A r \in Q : q >= r

\* Faulty variant of DashTitle: no text is split at a dash.
DashTitle_NoSplit(s) == 0

\* The length of the first group of dashMatch: the least that matches
\* (0: dashMatch is null).
DashTitle(s) ==
  LET K == {k \in 1..Len(s) : DashDesc(s, k) # 0}
  IN  IF K = {} THEN 0 ELSE CHOOSE k \in K : \A j \in K : k <= j

\* s.split(/:\s+/), from index i on, cur being the part collected so far.
RECURSIVE SplitColon(_, _, _)
SplitColon(s, i, cur) ==
  IF i > Len(s) THEN <<cur>>
  ELSE IF s[i] = ":" /\ i < Len(s) /\ s[i + 1] \in Whitespace
  THEN <<cur>> \o SplitColon(s, FirstNonSpace(s, i + 1), <<>>)
  ELSE SplitColon(s, i + 1, Append(cur, s[i]))

\* The length of cleanText.substring(0, 60).
TitleCut == 60

\* The feature of one list item whose text is not blank.
FeatureOfItem(text) ==
  LET emoji     == text # <<>> /\ Head(text) \in Pictographs
      icon      == IF emoji THEN Defined(<<Head(text)>>) ELSE Undefined
      cleanText == Trim(StripListMarker(
                     IF emoji THEN Trim(Tail(text)) ELSE text))
      k         == DashTitle(cleanText)
  IN  IF k # 0
      THEN [title |-> Trim(StripStars(SubSeq(cleanText, 1, k))),
            desc  |-> Defined(Trim(StripStars(
                        SubSeq(cleanText, DashDesc(cleanText, k),
                               Len(cleanText))))),
            icon  |-> icon]
      ELSE LET parts == SplitColon(cleanText, 1, <<>>)
               title == IF parts[1] # <<>> THEN parts[1]
                        ELSE Substring0(cleanText, TitleCut)
               desc  == Trim(Join(Tail(parts), sColonSpace))
           IN  [title |-> Trim(StripStars(title)),
                desc  |-> IF desc # <<>>
                          THEN Defined(Trim(StripStars(desc)))
                          ELSE Undefined,
                icon  |-> icon]

\* visit(featureList, 'listItem'): one feature per item with text.
ListFeatures(featureList) ==
  LET items == SelectSeq(VisitNode(featureList),
                         LAMBDA n : n.type = "listItem")
      texts == [i \in 1..Len(items) |-> extractTextFromNode(items[i])]
      kept  == SelectSeq(texts, LAMBDA t : Trim(t) # <<>>)
  IN  [i \in 1..Len(kept) |-> FeatureOfItem(kept[i])]

\* The bold spans of the fallback keep a title only.
MaxBold == 5
MaxFeatures == 6

\* Faulty variant of BoldFeatures: every bold span is let in.
BoldFeatures_All(ast) ==
  LET paragraphs == VisitType(ast, "paragraph")
      strongs    == Concat([i \in 1..Len(paragraphs) |->
                      SelectSeq(VisitNode(paragraphs[i]),
                                LAMBDA n : n.type = "strong")])
  IN  [i \in 1..Len(strongs) |->
         [title |-> Trim(extractTextFromNode(strongs[i])),
          desc |-> Undefined, icon |-> Undefined]]

\* The fallback: the trimmed texts of the bold spans inside paragraphs, in
\* document order, as far as features.length < 5 lets them in.
BoldFeatures(ast) ==
  LET paragraphs == VisitType(ast, "paragraph")
      strongs    == Concat([i \in 1..Len(paragraphs) |->
                      SelectSeq(VisitNode(paragraphs[i]),
                                LAMBDA n : n.type = "strong")])
      texts      == [i \in 1..Len(strongs) |->
                      Trim(extractTextFromNode(strongs[i]))]
      kept       == SelectSeq(texts, LAMBDA t : t # <<>>)
  IN  [i \in 1..(IF Len(kept) < MaxBold THEN Len(kept) ELSE MaxBold) |->
         [title |-> kept[i], desc |-> Undefined, icon |-> Undefined]]

extractFeatures(ast) ==
  LET fl       == FeatureList(ast)
      fromList == IF fl = 0 THEN <<>> ELSE ListFeatures(ast[fl])
      features == IF fromList = <<>> THEN BoldFeatures(ast) ELSE fromList
  IN  Slice0(features, MaxFeatures)

(***************************************************************************)
(* extractBadges                                                           *)
(***************************************************************************)
imageBadgeWords ==
  << <<"l","i","c","e","n","s","e">>,
     <<"v","e","r","s","i","o","n">>,
     <<"b","u","i","l","d">>,
     <<"s","t","a","t","u","s">>,
     <<"b","a","d","g","e">> >>

linkLabelBadgeWords ==
  << <<"l","i","c","e","n","s","e">>,
     <<"v","e","r","s","i","o","n">>,
     <<"n","p","m">>,
     <<"b","a","d","g","e">> >>

linkHrefBadgeWords ==
  << <<"s","h","i","e","l","d","s",".","i","o">>,
     <<"b","a","d","g","e">> >>

badgeTechKeywords ==
  << <<"n","e","x","t">>,
     <<"r","e","a","c","t">>,
     <<"v","u","e">>,
     <<"a","n","g","u","l","a","r">>,
     <<"t","y","p","e","s","c","r","i","p","t">>,
     <<"j","a","v","a","s","c","r","i","p","t">>,
     <<"p","y","t","h","o","n">>,
     <<"n","o","d","e">>,
     <<"t","a","i","l","w","i","n","d">>,
     <<"c","s","s">>,
     <<"h","t","m","l">>,
     <<"l","i","c","e","n","s","e">>,
     <<"m","i","t">>,
     <<"a","p","a","c","h","e">> >>

\* s includes one of the words.
IncludesAny(s, words) == \E k \in 1..Len(words) : Includes(s, words[k])

\* The image test: an alt text holding a badge word, ignoring case.
IsBadgeImage(node) ==
  node.alt # <<>> /\ IncludesAny(ToLowerCase(node.alt), imageBadgeWords)

\* visit(ast, 'image'): images[i..] added to st = [badges, seen].
RECURSIVE AddImageBadges(_, _, _)
AddImageBadges(images, i, st) ==
  IF i > Len(images) THEN st
  ELSE
    LET node  == images[i]
        label == node.alt
    IN  IF IsBadgeImage(node) /\ ToLowerCase(label) \notin st.seen
        THEN AddImageBadges(images, i + 1,
               [badges |-> Append(st.badges,
                             [label |-> label,
                              href  |-> IF node.url # <<>>
                                        THEN Defined(node.url)
                                        ELSE Undefined]),
                seen   |-> st.seen \cup {ToLowerCase(label)}])
        ELSE AddImageBadges(images, i + 1, st)

\* The link test: a badge word in the label or in the href, ignoring case.
IsBadgeLink(link) ==
  \/ IncludesAny(ToLowerCase(link.label), linkLabelBadgeWords)
  \/ IncludesAny(ToLowerCase(link.href), linkHrefBadgeWords)

\* for (const link of links): links[i..] added to st.
RECURSIVE AddLinkBadges(_, _, _)
AddLinkBadges(links, i, st) ==
  IF i > Len(links) THEN st
  ELSE
    LET link  == links[i]
        label == ToLowerCase(link.label)
    IN  IF IsBadgeLink(link) /\ label \notin st.seen
        THEN AddLinkBadges(links, i + 1,
               [badges |-> Append(st.badges,
                             [label |-> link.label,
                              href  |-> Defined(link.href)]),
                seen   |-> st.seen \cup {label}])
        ELSE AddLinkBadges(links, i + 1, st)

\* The characters of the regex classes \w and [a-zA-Z].
Letters == {Upper[i] : i \in 1..26} \cup {Lowers[i] : i \in 1..26}
WordChars == Letters \cup Digits \cup {"_"}

\* The index of the first character of s from i on that is in chars
\* (0: none).
NextIn(s, i, chars) == FirstIndex({j \in i..Len(s) : s[j] \in chars})

\* s.split(/\s+/), from index i on: the part up to the next run of
\* whitespace, then the parts behind the run.
RECURSIVE SplitSpaces(_, _)
SplitSpaces(s, i) ==
  LET w == NextIn(s, i, Whitespace)
  IN  IF w = 0 THEN <<SubSeq(s, i, Len(s))>>
      ELSE <<SubSeq(s, i, w - 1)>> \o SplitSpaces(s, FirstNonSpace(s, w))

\* The end of the run of \w characters that starts at a.
WordEnd(s, a) ==
  LET e == FirstIndex({j \in a..Len(s) : s[j] \notin WordChars})
  IN  IF e = 0 THEN Len(s) ELSE e - 1

\* A run of \w characters starts at a.
WordStart(s, a) ==
  s[a] \in WordChars /\ (a = 1 \/ s[a - 1] \notin WordChars)

\* [A-Z][a-zA-Z]+ between two word boundaries: the run of \w characters
\* at a holds letters only, two or more, the first a capital.
CapitalWord(s, a) ==
  /\ WordStart(s, a)
  /\ s[a] \in {Upper[i] : i \in 1..26}
  /\ WordEnd(s, a) > a
  /\ \A i \in a..WordEnd(s, a) : s[i] \in Letters

\* The capital word at a continues a match: a capital word ends before it
\* with nothing but whitespace between.
ContinuesMatch(s, a) ==
  \E b \in 1..(a - 1) :
    /\ CapitalWord(s, b)
    /\ WordEnd(s, b) < a - 1
    /\ \A i \in (WordEnd(s, b) + 1)..(a - 1) : s[i] \in Whitespace

\* text.match(/\b([A-Z][a-zA-Z]+(?:\s+[A-Z][a-zA-Z]+)*)\b/g): the number
\* of matches, each a longest chain of capital words.
TechWordMatches(s) ==
  Cardinality({a \in 1..Len(s) : CapitalWord(s, a) /\ ~ContinuesMatch(s, a)})

\* /^[A-Z][a-z]/.test(w)
StartsLikeName(w) ==
  /\ Len(w) >= 2
  /\ w[1] \in {Upper[i] : i \in 1..26}
  /\ w[2] \in {Lowers[i] : i \in 1..26}

\* The limits of the technology-word heuristic.
TechLineMax == 100
TechLineWords == 8
TechMatchesMin == 3
TechMatchesMax == 6
TechValidMin == 2
TechValidMax == 5
TechTake == 4
FewBadges == 2
MaxBadges == 5

\* validTechs of one paragraph text (empty when the text is no tech line).
ValidTechs(text) ==
  LET split == SplitSpaces(text, 1)
      n     == TechWordMatches(text)
      words == SelectSeq(split, LAMBDA w :
                 Len(w) > 2 /\ StartsLikeName(w) /\ ~Includes(w, <<".">>))
      valid == SelectSeq(words, LAMBDA w :
                 IncludesAny(ToLowerCase(w), badgeTechKeywords) \/ Len(w) > 3)
  IN  IF /\ Len(text) < TechLineMax /\ Len(split) <= TechLineWords
         /\ n >= TechMatchesMin /\ n <= TechMatchesMax
         /\ Len(valid) >= TechValidMin /\ Len(valid) <= TechValidMax
      THEN Slice0(valid, TechTake)
      ELSE <<>>

\* for (const word of validTechs.slice(0, 4)): words[i..] added to st.
RECURSIVE AddWords(_, _, _)
AddWords(words, i, st) ==
  IF i > Len(words) THEN st
  ELSE IF ToLowerCase(words[i]) \notin st.seen
  THEN AddWords(words, i + 1,
         [badges |-> Append(st.badges,
                       [label |-> words[i], href |-> Undefined]),
          seen   |-> st.seen \cup {ToLowerCase(words[i])}])
  ELSE AddWords(words, i + 1, st)

\* visit(ast, 'paragraph') of the heuristic: paragraphs[i..] added to st.
RECURSIVE AddTechBadges(_, _, _)
AddTechBadges(paragraphs, i, st) ==
  IF i > Len(paragraphs) THEN st
  ELSE AddTechBadges(paragraphs, i + 1,
         AddWords(ValidTechs(extractTextFromNode(paragraphs[i])), 1, st))

\* Faulty variant of extractBadges: every source starts with no label
\* seen.
extractBadges_SeenPerSource(ast, links) ==
  LET s0 == [badges |-> <<>>, seen |-> {}]
      s1 == AddImageBadges(VisitType(ast, "image"), 1, s0)
      s2 == AddLinkBadges(links, 1, [badges |-> s1.badges, seen |-> {}])
      s3 == IF Len(s2.badges) < FewBadges
            THEN AddTechBadges(VisitType(ast, "paragraph"), 1,
                               [badges |-> s2.badges, seen |-> {}])
            ELSE s2
  IN  Slice0(s3.badges, MaxBadges)

extractBadges(ast, links) ==
  LET s0 == [badges |-> <<>>, seen |-> {}]
      s1 == AddImageBadges(VisitType(ast, "image"), 1, s0)
      s2 == AddLinkBadges(links, 1, s1)
      s3 == IF Len(s2.badges) < FewBadges
            THEN AddTechBadges(VisitType(ast, "paragraph"), 1, s2)
            ELSE s2
  IN  Slice0(s3.badges, MaxBadges)

(***************************************************************************)
(* extractHeroImage                                                        *)
(***************************************************************************)
sHeroImage == <<"H","e","r","o"," ","i","m","a","g","e">>

\* The nodes the visitor sees once foundH1 is set: those that follow the
\* first depth-1 heading in the pre-order of the whole tree (the heading's
\* own children included).
AfterFirstH1(ast) ==
  LET nodes == Visit(ast)
      h1    == FirstIndex({i \in 1..Len(nodes) :
                 nodes[i].type = "heading" /\ nodes[i].depth = 1})
  IN  IF h1 = 0 THEN <<>> ELSE SubSeq(nodes, h1 + 1, Len(nodes))

\* The alt words the visitor prefers.
heroAltWords ==
  << <<"s","c","r","e","e","n","s","h","o","t">>,
     <<"d","e","m","o">>,
     <<"p","r","e","v","i","e","w">>,
     <<"l","o","g","o">>,
     <<"h","e","r","o">>,
     <<"b","a","n","n","e","r">> >>

\* Faulty variant of extractHeroImage: an image with a preferred alt word
\* wins over an earlier image without one.
extractHeroImage_PreferMatching(ast) ==
  LET images   == SelectSeq(AfterFirstH1(ast), LAMBDA n : n.type = "image")
      matching == SelectSeq(images, LAMBDA n :
                    IncludesAny(ToLowerCase(n.alt), heroAltWords))
  IN  IF images = <<>> THEN Undefined
      ELSE LET img == IF matching # <<>> THEN Head(matching)
                      ELSE Head(images)
           IN  IF img.url # <<>>
               THEN Defined([url |-> img.url,
                             alt |-> IF img.alt # <<>> THEN img.alt
                                     ELSE sHeroImage])
               ELSE Undefined

\* heroImage: both branches of the alt test assign the image, so the first
\* image seen after the heading is kept; it is returned if it has a url.
extractHeroImage(ast) ==
  LET images == SelectSeq(AfterFirstH1(ast), LAMBDA n : n.type = "image")
  IN  IF images = <<>> THEN Undefined
      ELSE LET img == Head(images)
           IN  IF img.url # <<>>
               THEN Defined([url |-> img.url,
                             alt |-> IF img.alt # <<>> THEN img.alt
                                     ELSE sHeroImage])
               ELSE Undefined

(***************************************************************************)
(* extractStats                                                            *)
(***************************************************************************)
\* The class [kKmMbB] of statPattern.
StatSuffixes == {"k", "K", "m", "M", "b", "B"}

\* The end of the run of digits that starts at a.
DigitsEnd(s, a) ==
  LET e == FirstIndex({j \in a..Len(s) : s[j] \notin Digits})
  IN  IF e = 0 THEN Len(s) ELSE e - 1

\* text.matchAll(/(\d+[kKmMbB]?\+?)\s+(\w+)/gi) from index i on: the
\* matches left to right, the search resuming behind each match.
RECURSIVE StatMatches(_, _)
StatMatches(s, from) ==
  IF NextIn(s, from, Digits) = 0 THEN <<>>
  ELSE
    LET i == NextIn(s, from, Digits)
        d == DigitsEnd(s, i)
        a == IF d < Len(s) /\ s[d + 1] \in StatSuffixes THEN d + 1 ELSE d
        b == IF a < Len(s) /\ s[a + 1] = "+" THEN a + 1 ELSE a
        w == FirstNonSpace(s, b + 1)
    IN  IF /\ b < Len(s) /\ s[b + 1] \in Whitespace
           /\ w <= Len(s) /\ s[w] \in WordChars
        THEN <<[value |-> SubSeq(s, i, b),
                label |-> SubSeq(s, w, WordEnd(s, w))]>>
             \o StatMatches(s, WordEnd(s, w) + 1)
        ELSE StatMatches(s, i + 1)

MaxStats == 4

\* The matches of all the nodes, node after node.
StatsOf(nodes) ==
  Concat([i \in 1..Len(nodes) |->
            StatMatches(extractTextFromNode(nodes[i]), 1)])

\* Paragraphs first, list items second; pushes stop at four.
extractStats(ast) ==
  LET stats == Slice0(StatsOf(VisitType(ast, "paragraph"))
                      \o StatsOf(VisitType(ast, "listItem")), MaxStats)
  IN  IF Len(stats) > 0 THEN Defined(stats) ELSE Undefined

(***************************************************************************)
(* extractTechStack                                                        *)
(***************************************************************************)
techKeywords ==
  << <<"r","e","a","c","t">>,
     <<"v","u","e">>,
     <<"a","n","g","u","l","a","r">>,
     <<"n","e","x","t">>,
     <<"t","y","p","e","s","c","r","i","p","t">>,
     <<"j","a","v","a","s","c","r","i","p","t">>,
     <<"p","y","t","h","o","n">>,
     <<"n","o","d","e">>,
     <<"r","u","s","t">>,
     <<"g","o">>,
     <<"j","a","v","a">>,
     <<"p","h","p">>,
     <<"r","u","b","y">>,
     <<"s","w","i","f","t">>,
     <<"k","o","t","l","i","n">>,
     <<"d","o","c","k","e","r">>,
     <<"k","u","b","e","r","n","e","t","e","s">>,
     <<"a","w","s">>,
     <<"g","c","p">>,
     <<"a","z","u","r","e">>,
     <<"p","o","s","t","g","r","e","s","q","l">>,
     <<"m","y","s","q","l">>,
     <<"m","o","n","g","o","d","b">>,
     <<"r","e","d","i","s">>,
     <<"t","a","i","l","w","i","n","d">>,
     <<"b","o","o","t","s","t","r","a","p">>,
     <<"s","a","s","s">>,
     <<"w","e","b","p","a","c","k">>,
     <<"v","i","t","e">> >>

\* techStack.includes(x)
Has(seq, x) == \E i \in 1..Len(seq) : seq[i] = x

\* for (const keyword of techKeywords): the keywords (all different) that
\* one lower-cased paragraph text includes and techStack lacks are pushed
\* in the order of the list. (A keyword whose first character the text
\* lacks is not searched for: the text cannot include it.)
AddKeywords(text, techStack) ==
  LET chars == {text[i] : i \in 1..Len(text)}
  IN  techStack \o SelectSeq(techKeywords, LAMBDA keyword :
                      /\ keyword[1] \in chars
                      /\ Includes(text, keyword)
                      /\ ~Has(techStack, keyword))

\* visit(ast, 'paragraph')
RECURSIVE AddParagraphTechs(_, _, _)
AddParagraphTechs(paragraphs, i, techStack) ==
  IF i > Len(paragraphs) THEN techStack
  ELSE AddParagraphTechs(paragraphs, i + 1,
         AddKeywords(ToLowerCase(extractTextFromNode(paragraphs[i])),
                     techStack))

\* visit(ast, 'code'): the language tag as written.
RECURSIVE AddCodeLangs(_, _, _)
AddCodeLangs(codes, i, techStack) ==
  IF i > Len(codes) THEN techStack
  ELSE IF codes[i].lang # <<>> /\ ~Has(techStack, codes[i].lang)
  THEN AddCodeLangs(codes, i + 1, Append(techStack, codes[i].lang))
  ELSE AddCodeLangs(codes, i + 1, techStack)

MaxTechs == 8

extractTechStack(ast) ==
  LET techStack == AddCodeLangs(VisitType(ast, "code"), 1,
                     AddParagraphTechs(VisitType(ast, "paragraph"), 1, <<>>))
  IN  IF Len(techStack) > 0 THEN Defined(Slice0(techStack, MaxTechs))
      ELSE Undefined

(***************************************************************************)
(* extractTestimonials                                                     *)
(***************************************************************************)
\* text.length > 20 && text.length < 300
QuoteMin == 20
QuoteMax == 300
MaxTestimonials == 3

\* text.split(/[dash]\s*|\n/), from index i on: the part up to the next
\* dash or line break, then the parts behind the separator.
RECURSIVE SplitQuote(_, _)
SplitQuote(s, i) ==
  LET p == NextIn(s, i, Dashes \cup LineBreaks)
  IN  IF p = 0 THEN <<SubSeq(s, i, Len(s))>>
      ELSE <<SubSeq(s, i, p - 1)>>
           \o SplitQuote(s, IF s[p] \in Dashes THEN FirstNonSpace(s, p + 1)
                             ELSE p + 1)

\* Faulty variant of TestimonialOf: a text of 20 characters is let in.
TestimonialOf_FromTwenty(text) ==
  IF Len(text) >= QuoteMin /\ Len(text) < QuoteMax
  THEN LET parts  == SplitQuote(text, 1)
           quote  == IF Trim(parts[1]) # <<>> THEN Trim(parts[1])
                     ELSE Trim(text)
           author == IF Len(parts) >= 2 THEN Trim(parts[2]) ELSE <<>>
       IN  IF quote # <<>>
           THEN <<[quote  |-> quote,
                   author |-> IF author # <<>> THEN Defined(author)
                              ELSE Undefined]>>
           ELSE <<>>
  ELSE <<>>

\* The testimonial of one block quote (none: the empty sequence).
TestimonialOf(text) ==
  IF Len(text) > QuoteMin /\ Len(text) < QuoteMax
  THEN LET parts  == SplitQuote(text, 1)
           quote  == IF Trim(parts[1]) # <<>> THEN Trim(parts[1])
                     ELSE Trim(text)
           author == IF Len(parts) >= 2 THEN Trim(parts[2]) ELSE <<>>
       IN  IF quote # <<>>
           THEN <<[quote  |-> quote,
                   author |-> IF author # <<>> THEN Defined(author)
                              ELSE Undefined]>>
           ELSE <<>>
  ELSE <<>>

extractTestimonials(ast) ==
  LET quotes       == VisitType(ast, "blockquote")
      testimonials == Concat([i \in 1..Len(quotes) |->
                        TestimonialOf(extractTextFromNode(quotes[i]))])
  IN  IF Len(testimonials) > 0
      THEN Defined(Slice0(testimonials, MaxTestimonials))
      ELSE Undefined


(***************************************************************************)
(* Inputs: the texts, URLs and nodes the documents are built from.         *)
(***************************************************************************)
tFoo == <<"F","o","o">>
tDoesBar == <<"D","o","e","s"," ","b","a","r",".">>
tHi == <<" ","H","i">>
tQuote == <<"Q","u","o","t","e">>
tNest == <<"N","e","s","t">>
tUsage == <<"U","s","a","g","e">>
tLogoUrl == <<"l",".","p","n","g">>
tLogo == <<"l","o","g","o">>
tLiveDemo == <<"L","i","v","e"," ","D","e","m","o">>
tDocs == <<"D","o","c","s">>
tDemo == <<"D","e","m","o">>
tApp == <<"A","p","p">>
tCode == <<"C","o","d","e">>
tMirror == <<"M","i","r","r","o","r">>
tX == <<"X">>
tGuide == <<"G","u","i","d","e">>
uPlain == <<"h","t","t","p","s",":","/","/","a",".","i","o","/","x">>
uTry == <<"h","t","t","p","s",":","/","/","t","r","y",".","i","o">>
uAnchorDemo == <<"#","d","e","m","o">>
uGithub ==
  <<"h","t","t","p","s",":","/","/","g","i","t","h","u","b",".","c","o","m",
    "/","r">>
uGithubInPath ==
  <<"h","t","t","p","s",":","/","/","a",".","i","o","/","g","i","t","h","u",
    "b",".","c","o","m">>
uDocs == <<"h","t","t","p","s",":","/","/","a",".","i","o","/","d">>
uSocial == <<"h","t","t","p","s",":","/","/","x",".","c","o","m","/","u">>
uRelative == <<"d","o","c","s","/","g",".","m","d">>
tInstallation == <<"I","n","s","t","a","l","l","a","t","i","o","n">>
tQuickStart == <<"Q","u","i","c","k"," ","S","t","a","r","t">>
tNotes == <<"N","o","t","e","s">>
tLicense == <<"L","i","c","e","n","s","e">>
tFaq == <<"F","A","Q">>
tInstallGuide == <<"I","n","s","t","a","l","l"," ","G","u","i","d","e">>
tMit == <<"M","I","T">>
tBash == <<"b","a","s","h">>
tNpmIFoo == <<"n","p","m"," ","i"," ","f","o","o">>
tText == <<"t","e","x","t">>

\* Paragraph texts around the two length limits of extractTagline.
tLong(n) == Rep("a", n)

HeadingOf(d, t) == Heading(d, <<Text(t)>>)
ParagraphOf(t)  == Paragraph(<<Text(t)>>)
\* A paragraph holding one link: [label](href)
PLink(label, href) == Paragraph(<<Link(href, <<Text(label)>>)>>)

\* Title and tagline documents: headings with and without text, paragraphs
\* that are blank, padded, short, and just below and above 160 and 200
\* characters, block quotes.
PoolText ==
  { <<HeadingOf(1, tFoo)>>,
    <<Heading(1, <<Image(tLogoUrl, tLogo)>>)>>,
    <<HeadingOf(2, tUsage)>>,
    <<ParagraphOf(tDoesBar)>>,
    <<Paragraph(<<Image(tLogoUrl, tLogo), Text(tHi)>>)>>,
    <<Paragraph(<<Image(tLogoUrl, tLogo)>>)>>,
    <<ParagraphOf(tLong(TaglineMax))>>,
    <<ParagraphOf(tLong(TaglineMax + 1))>>,
    <<ParagraphOf(tLong(ShortLimit - 1))>>,
    <<ParagraphOf(tLong(ShortLimit))>>,
    <<Blockquote(<<ParagraphOf(tQuote)>>)>>,
    <<Blockquote(<<HeadingOf(1, tNest)>>)>> }

\* Link documents: one link per paragraph (keyword in the label, keyword in
\* the URL, anchors, the bare placeholder, GitHub as host and as path, a
\* social link, a relative link), and sections with and without an
\* installation title.
PoolLinks ==
  { <<PLink(tLiveDemo, uPlain)>>,
    <<PLink(tDocs, uTry)>>,
    <<PLink(tDemo, uAnchorDemo)>>,
    <<PLink(tApp, sHash)>>,
    <<PLink(tCode, uGithub)>>,
    <<PLink(tMirror, uGithubInPath)>>,
    <<PLink(tDocs, uDocs)>>,
    <<PLink(tX, uSocial)>>,
    <<PLink(tGuide, uRelative)>>,
    <<HeadingOf(2, tInstallation), ParagraphOf(tText)>>,
    <<HeadingOf(2, tQuickStart), ParagraphOf(tText)>>,
    <<HeadingOf(2, tNotes), ParagraphOf(tText)>> }

\* Section documents: headings of depth 2 and 3 with content, headings
\* without content, content without a heading; the same heading may occur
\* more than once in a document.
PoolSections ==
  { <<HeadingOf(2, tLicense), ParagraphOf(tMit)>>,
    <<HeadingOf(2, tInstallation), Code(tBash, tNpmIFoo)>>,
    <<HeadingOf(2, tFaq), ParagraphOf(tText)>>,
    <<HeadingOf(2, tInstallGuide), ParagraphOf(tText)>>,
    <<HeadingOf(2, tUsage), ParagraphOf(tText)>>,
    <<HeadingOf(2, tUsage)>>,
    <<HeadingOf(2, tNotes), ParagraphOf(tText)>>,
    <<HeadingOf(3, tNotes)>>,
    <<ParagraphOf(tMit)>> }

tFeatures == <<"F","e","a","t","u","r","e","s">>
tFast == <<"F","a","s","t">>
tDashVeryFast == <<" ","-"," ","v","e","r","y"," ","f","a","s","t">>
tVeryFast == <<"v","e","r","y"," ","f","a","s","t">>
tKeyFeatures == <<"K","e","y"," ","F","e","a","t","u","r","e","s">>
tWhy == <<"W","h","y">>
tOne == <<"O","n","e">>
tTwo == <<"T","w","o">>
tThree == <<"T","h","r","e","e">>
tBlank == <<" "," ">>
tPadded == <<" ","P","a","d"," ">>
tQuickGo == <<" ","Q","u","i","c","k",":"," ","g","o">>
tSmallFree == <<"S","m","a","l","l","-","f","r","e","e">>
tItem == <<"I","t","e","m">>

\* A list item holding one paragraph, and a list of such items.
ItemOf(k) == ListItem(<<Paragraph(k)>>)
tItemNo(n) == tItem \o <<" ">> \o Rep("i", n)

\* Feature documents: a feature heading with its list ('**Fast** - very
\* fast'), with a list of seven items, and without a list; a second
\* feature heading; lists on their own (an item with a leading pictograph
\* and a colon, an item with a hyphenated word, an image-only item);
\* a heading with a bold span; paragraphs with bold spans (blank, padded,
\* three in one paragraph); four paragraphs in a row, as long as the
\* lookahead.
PoolFeatures ==
  { <<HeadingOf(1, tFoo), ParagraphOf(tDoesBar)>>,
    <<HeadingOf(2, tFeatures),
      List(<<ItemOf(<<Strong(<<Text(tFast)>>), Text(tDashVeryFast)>>)>>)>>,
    <<HeadingOf(2, tInstallation), Code(tBash, tNpmIFoo)>>,
    <<HeadingOf(2, tKeyFeatures),
      List([n \in 1..7 |-> ItemOf(<<Text(tItemNo(n))>>)])>>,
    <<HeadingOf(2, tFeatures)>>,
    <<HeadingOf(3, tWhy)>>,
    <<Heading(3, <<Strong(<<Text(tNotes)>>)>>)>>,
    <<List(<<ItemOf(<<Text(<<"rocket">> \o tQuickGo)>>),
             ItemOf(<<Text(tSmallFree)>>),
             ItemOf(<<Image(tLogoUrl, tLogo)>>)>>)>>,
    <<Paragraph(<<Strong(<<Text(tPadded)>>), Text(tText),
                  Strong(<<Text(tBlank)>>)>>)>>,
    <<Paragraph(<<Strong(<<Text(tOne)>>), Strong(<<Text(tTwo)>>),
                  Strong(<<Text(tThree)>>)>>)>>,
    <<ParagraphOf(tText), ParagraphOf(tText), ParagraphOf(tText),
      ParagraphOf(tText)>> }


tIn == <<"I","n">>
tBird == <<"B","i","r","d">>
tBlog == <<"B","l","o","g">>
tWiki == <<"W","i","k","i">>
tBoth == <<"B","o","t","h">>
tFork == <<"F","o","r","k">>
uLinkedin ==
  <<"h","t","t","p","s",":","/","/","l","i","n","k","e","d","i","n",".","c",
    "o","m","/","u">>
uTwitter ==
  <<"h","t","t","p","s",":","/","/","t","w","i","t","t","e","r",".","c","o",
    "m","/","u">>
uBlog == <<"h","t","t","p","s",":","/","/","b",".","i","o","/","b">>
uWiki == <<"h","t","t","p","s",":","/","/","w",".","i","o","/","w">>
uBoth ==
  <<"h","t","t","p","s",":","/","/","g","i","t","h","u","b",".","c","o","m",
    "/","x",".","c","o","m">>
uGithubFork ==
  <<"h","t","t","p","s",":","/","/","g","i","t","h","u","b",".","c","o","m",
    "/","f">>
uAnchorNotes == <<"#","n","o","t","e","s">>

\* Link-list documents: up to two links per piece, so that a document
\* holds more links than secondaryLinks has room for: GitHub links (one of
\* them also a social link by its path), three social links, five other
\* links (one an anchor), a keyword link for the CTA, a relative link.
PoolSecondary ==
  { <<PLink(tCode, uGithub)>>,
    <<PLink(tFork, uGithubFork)>>,
    <<PLink(tBoth, uBoth)>>,
    <<PLink(tX, uSocial), PLink(tIn, uLinkedin)>>,
    <<PLink(tBird, uTwitter)>>,
    <<PLink(tDocs, uDocs), PLink(tGuide, uPlain)>>,
    <<PLink(tBlog, uBlog), PLink(tWiki, uWiki)>>,
    <<PLink(tNotes, uAnchorNotes)>>,
    <<PLink(tLiveDemo, uTry)>>,
    <<PLink(tGuide, uRelative)>> }


tJs == <<"j","s">>
tSpacedCode == <<" "," ","x"," ","="," ","1"," ">>

\* Code-block documents: '## Installation' followed by a fenced block; the
\* heading on its own; top-level blocks with and without a language tag,
\* with an empty value, with a value that starts and ends with blanks; a
\* block inside a blockquote and inside a list item; a second heading, a
\* paragraph, a title.
PoolCode ==
  { <<HeadingOf(2, tInstallation), Code(tBash, tNpmIFoo)>>,
    <<HeadingOf(2, tInstallation)>>,
    <<Code(<<>>, tNpmIFoo)>>,
    <<Code(tBash, <<>>)>>,
    <<Code(tJs, tSpacedCode)>>,
    <<Blockquote(<<Code(tBash, tNpmIFoo)>>)>>,
    <<List(<<ListItem(<<ParagraphOf(tText), Code(tJs, tSpacedCode)>>)>>)>>,
    <<HeadingOf(2, tUsage)>>,
    <<ParagraphOf(tText)>>,
    <<HeadingOf(1, tFoo)>> }


tSpaceUsage == <<" ","U","s","a","g","e">>
tApiSpace == <<"A","P","I"," ">>
tQuickStart2 ==
  <<"Q","u","i","c","k"," "," ","S","t","a","r","t"," ","2",".","0","!">>
tADashB == <<"a"," ","-"," ","b">>
tTabbed == <<"T","a","b","\t","b","e","d">>
tBangs == <<"!","!","!">>
tCpp == <<"C","+","+"," ","&"," ","C","#">>

\* Heading documents: sections whose heading text starts or ends with a
\* blank (the text beside an image in the heading), holds a run of two
\* blanks, a tab, digits, capitals, punctuation, a hyphen between blanks,
\* or nothing but punctuation; a plain heading; a paragraph on its own.
PoolIds ==
  { <<Heading(2, <<Image(tLogoUrl, tLogo), Text(tSpaceUsage)>>),
      ParagraphOf(tText)>>,
    <<Heading(2, <<Text(tApiSpace), Image(tLogoUrl, tLogo)>>),
      ParagraphOf(tText)>>,
    <<HeadingOf(2, tQuickStart2), ParagraphOf(tText)>>,
    <<HeadingOf(2, tADashB), ParagraphOf(tText)>>,
    <<HeadingOf(3, tTabbed), ParagraphOf(tText)>>,
    <<HeadingOf(2, tBangs), ParagraphOf(tText)>>,
    <<HeadingOf(2, tCpp), ParagraphOf(tText)>>,
    <<HeadingOf(2, tInstallation), ParagraphOf(tText)>>,
    <<HeadingOf(2, tUsage)>>,
    <<ParagraphOf(tText)>> }


tMitLicense == <<"M","I","T"," ","L","i","c","e","n","s","e">>
tMitLicenseLower == <<"m","i","t"," ","l","i","c","e","n","s","e">>
tMitLicenseUpper == <<"M","I","T"," ","L","I","C","E","N","S","E">>
tBuildStatus == <<"B","u","i","l","d"," ","S","t","a","t","u","s">>
tVersion == <<"V","e","r","s","i","o","n">>
tNpm == <<"n","p","m">>
uBadgeA == <<"a",".","s","v","g">>
uBadgeB == <<"b",".","s","v","g">>
uBadgeC == <<"c",".","s","v","g">>
uShields ==
  <<"h","t","t","p","s",":","/","/","i","m","g",".","s","h","i","e","l","d",
    "s",".","i","o","/","x">>
uNpm ==
  <<"h","t","t","p","s",":","/","/","n","p","m","j","s",".","c","o","m","/",
    "f","o","o">>
uBadgePath ==
  <<"h","t","t","p","s",":","/","/","a",".","i","o","/","b","a","d","g",
    "e">>
tTechFive ==
  <<"N","e","x","t",","," ","R","e","a","c","t",","," ","P","y","t","h","o",
    "n",","," ","T","a","i","l","w","i","n","d",","," ","H","t","m","l">>
tTechCase ==
  <<"R","e","a","c","t",","," ","V","u","e",","," ","R","e","A","c","t",",",
    " ","H","t","m","l">>
tTechLicense ==
  <<"L","i","c","e","n","s","e",","," ","A","p","a","c","h","e",","," ","A",
    "n","g","u","l","a","r">>
tTypescript == <<"T","y","p","e","s","c","r","i","p","t">>
tTechNode ==
  <<"N","o","d","e",","," ","C","s","s",","," ","T","y","p","e","s","c","r",
    "i","p","t">>

\* Badge documents: badge images whose alt texts differ only in case, two
\* badge images in one paragraph (one without a URL), badge links by label
\* and by URL (one labelled like a badge image, in capitals), technology
\* lines (five names; the same name in two spellings; a name that is also
\* a badge word; two lines in a row), an image that is no badge, a plain
\* sentence.
PoolBadges ==
  { <<Paragraph(<<Image(uBadgeA, tMitLicense)>>)>>,
    <<Paragraph(<<Image(uBadgeB, tMitLicenseLower)>>)>>,
    <<Paragraph(<<Image(uBadgeC, tBuildStatus), Image(<<>>, tVersion)>>)>>,
    <<PLink(tLicense, uShields)>>,
    <<PLink(tMitLicenseUpper, uPlain)>>,
    <<PLink(tNpm, uNpm), PLink(tDocs, uBadgePath)>>,
    <<ParagraphOf(tTechFive)>>,
    <<ParagraphOf(tTechCase)>>,
    <<ParagraphOf(tTechLicense), ParagraphOf(tTechNode)>>,
    <<Paragraph(<<Image(tLogoUrl, tLogo)>>)>>,
    <<ParagraphOf(tDoesBar)>> }


tPic == <<"p","i","c">>
tScreenshot == <<"A","p","p"," ","S","c","r","e","e","n","s","h","o","t">>
tBanner == <<"b","a","n","n","e","r">>
uPicPng == <<"p",".","p","n","g">>
uShotPng == <<"s",".","p","n","g">>
uNoAltPng == <<"n",".","p","n","g">>
uHeadPng == <<"h",".","p","n","g">>

\* Image documents: a title; a title with an image in it; a title nested
\* in a blockquote; images whose alt text names no kind of picture, names
\* a screenshot, names a logo; an image without a URL; an image without an
\* alt text; an image below a depth-2 heading; a paragraph without image.
PoolHero ==
  { <<HeadingOf(1, tFoo)>>,
    <<Heading(1, <<Image(uHeadPng, tPic), Text(tFoo)>>)>>,
    <<Blockquote(<<HeadingOf(1, tNest)>>)>>,
    <<Paragraph(<<Image(uPicPng, tPic)>>)>>,
    <<Paragraph(<<Image(uShotPng, tScreenshot)>>)>>,
    <<Paragraph(<<Image(tLogoUrl, tLogo)>>)>>,
    <<Paragraph(<<Image(<<>>, tBanner)>>)>>,
    <<Paragraph(<<Image(uNoAltPng, <<>>)>>)>>,
    <<HeadingOf(2, tUsage),
      Paragraph(<<Text(tText), Image(uShotPng, tScreenshot)>>)>>,
    <<ParagraphOf(tText)>> }


tFiveCats == <<"5"," ","c","a","t","s">>
tThreeDogs == <<"3"," ","d","o","g","s">>
tStarsUsers ==
  <<"1","0","k","+"," ","s","t","a","r","s"," ","a","n","d"," ","2","M"," ",
    "u","s","e","r","s">>
tOneA == <<"1"," ","a">>
tTwoB == <<"2"," ","b">>
tVersioned == <<"v","1","a","2"," ","b">>
tNoNumbers == <<"n","o"," ","n","u","m","b","e","r","s">>
tThreeStats == <<"7","+"," ","x"," ","8"," ","y"," ","9"," ","z">>
tFourU == <<"4"," ","u">>
tSixW == <<"6"," ","w">>
tHundred == <<"1","0","0">>

\* Number documents: paragraphs with one, two and three number-plus-word
\* matches, with a number inside a word, with a number and no word, with no
\* number; lists whose items hold one paragraph each; a heading and a
\* block quote with a match.
PoolStats ==
  { <<ParagraphOf(tFiveCats)>>,
    <<List(<<ItemOf(<<Text(tThreeDogs)>>)>>)>>,
    <<ParagraphOf(tStarsUsers)>>,
    <<List(<<ItemOf(<<Text(tOneA)>>), ItemOf(<<Text(tTwoB)>>)>>)>>,
    <<ParagraphOf(tVersioned)>>,
    <<ParagraphOf(tNoNumbers)>>,
    <<ParagraphOf(tThreeStats)>>,
    <<HeadingOf(2, tFourU)>>,
    <<Blockquote(<<ParagraphOf(tSixW)>>)>>,
    <<ParagraphOf(tHundred)>> }


tTypeScriptTag == <<"T","y","p","e","S","c","r","i","p","t">>
tBuiltWith ==
  <<"B","u","i","l","t"," ","w","i","t","h"," ","R","e","a","c","t"," ","a",
    "n","d"," ","t","y","p","e","s","c","r","i","p","t">>
tManyTechs ==
  <<"r","e","a","c","t"," ","v","u","e"," ","a","n","g","u","l","a","r"," ",
    "n","e","x","t"," ","t","y","p","e","s","c","r","i","p","t"," ","p","y",
    "t","h","o","n"," ","n","o","d","e"," ","r","u","s","t">>
tMoreTechs ==
  <<"D","o","c","k","e","r",","," ","R","e","d","i","s"," ","a","n","d"," ",
    "V","i","t","e">>
tShTag == <<"s","h">>
tReactTag == <<"r","e","a","c","t">>

\* Technology documents: paragraphs naming two, three and eight
\* technologies, in small letters and with capitals; code blocks with a
\* language tag in small letters, with capitals, equal to a technology
\* name, and without a tag; a paragraph naming none; a heading naming one.
PoolTech ==
  { <<ParagraphOf(tBuiltWith)>>,
    <<ParagraphOf(tManyTechs)>>,
    <<ParagraphOf(tMoreTechs)>>,
    <<Code(tTypeScriptTag, tNpmIFoo)>>,
    <<Code(tBash, tNpmIFoo)>>,
    <<Code(tShTag, tNpmIFoo), Code(tBash, tNpmIFoo)>>,
    <<Code(tReactTag, tNpmIFoo)>>,
    <<Code(<<>>, tNpmIFoo)>>,
    <<ParagraphOf(tText)>>,
    <<HeadingOf(2, tTechFive)>> }


tPraise ==
  <<"G","r","e","a","t"," ","t","o","o","l",","," ","s","a","v","e","d"," ",
    "m","e"," ","h","o","u","r","s"," ","-"," ","A","n","n">>
tPraiseLines ==
  <<"T","h","i","s"," ","i","s"," ","s","i","m","p","l","y"," ","w","o","n",
    "d","e","r","f","u","l","\n","B","o","b">>

\* A block quote holding one paragraph.
QuoteOf(t) == Blockquote(<<ParagraphOf(t)>>)

\* Quote documents: block quotes whose text is 20, 21, 299 and 300
\* characters long; a quote with its author behind a dash and behind a
\* line break; a short quote; two quotes in a row; a quote in a quote; a
\* paragraph.
PoolQuotes ==
  { <<QuoteOf(tLong(QuoteMin))>>,
    <<QuoteOf(tLong(QuoteMin + 1))>>,
    <<QuoteOf(tLong(QuoteMax - 1))>>,
    <<QuoteOf(tLong(QuoteMax))>>,
    <<QuoteOf(tPraise)>>,
    <<QuoteOf(tPraiseLines)>>,
    <<QuoteOf(tQuote)>>,
    <<QuoteOf(tPraise), QuoteOf(tLong(QuoteMin + 2))>>,
    <<Blockquote(<<QuoteOf(tLong(QuoteMin + 3))>>)>>,
    <<ParagraphOf(tText)>> }


\* Pieces that reach every extractor, for repeated calls on one text.
PoolMixed ==
  { <<HeadingOf(1, tFoo), ParagraphOf(tDoesBar)>>,
    <<HeadingOf(2, tFeatures),
      List(<<ItemOf(<<Strong(<<Text(tFast)>>), Text(tDashVeryFast)>>)>>)>>,
    <<HeadingOf(2, tInstallation), Code(tBash, tNpmIFoo)>>,
    <<Paragraph(<<Image(uShotPng, tScreenshot)>>)>>,
    <<ParagraphOf(tStarsUsers)>>,
    <<QuoteOf(tPraise)>>,
    <<HeadingOf(2, tUsage), ParagraphOf(tText)>> }

\* Pieces whose strings hold the characters that HTML gives a meaning to.
tSayHi == <<"s","a","y"," ","\"","h","i","\"">>
tTagged == <<"a","<","b",">","&","c">>
tDemoAndDocs == <<"D","e","m","o"," ","&"," ","d","o","c","s">>
uQuery == <<"h","t","t","p","s",":","/","/","a",".","i","o","/","?","a","=",
            "1","&","b","=","2">>
uQuoted == <<"h","t","t","p","s",":","/","/","a",".","i","o","/","\"","x">>
PoolExport ==
  { <<HeadingOf(1, tFoo)>>,
    <<HeadingOf(1, tTagged)>>,
    <<Paragraph(<<Image(uShotPng, tSayHi)>>)>>,
    <<Paragraph(<<Image(uShotPng, tScreenshot)>>)>>,
    <<Paragraph(<<Image(uQuery, tTagged)>>)>>,
    <<PLink(tDemoAndDocs, uQuery)>>,
    <<PLink(tDocs, uQuoted)>>,
    <<PLink(tTagged, uDocs)>>,
    <<ParagraphOf(tTagged)>>,
    <<HeadingOf(2, tUsage), ParagraphOf(tText)>> }

\* The trees of at most MaxChunks pieces of a pool.
Documents(pool) ==
  { Concat(d) : d \in UNION { [1..n -> pool] : n \in 0..MaxChunks } }

(***************************************************************************)
(* parseReadme as a state machine: one action per statement.               *)
(***************************************************************************)
VARIABLES
  ast,             \* root.children of the parsed markdown
  pc,              \* the statement of parseReadme to run next
  title, tagline, links, sections, cta, secondaryLinks, features, badges,
  heroImage, stats, techStack, testimonials, orderedSections,
  result,          \* the returned PageModel
  previous,        \* the PageModel an earlier call on the same text returned
  calls,           \* the number of calls of parseReadme started
  markdown,        \* Home: the text of the editor
  pageModel,       \* Home: the displayed model (null: Undefined)
  effects,         \* Home: the runs of the parsing effect, oldest first
  model,           \* LandingPage: the model prop
  renderedSections,\* LandingPage: section id -> rendered markup
  renders,         \* LandingPage: the runs of the rendering effect
  download         \* generateHTML: the export under way

\* The variables of one call of parseReadme, of the sequence of calls, and
\* of the user interface.
parseVars == <<ast, pc, title, tagline, links, sections, cta, secondaryLinks,
               features, badges, heroImage, stats, techStack, testimonials,
               orderedSections, result>>
callVars == <<previous, calls>>
uiVars == <<markdown, pageModel, effects, model, renderedSections, renders,
            download>>
vars == <<parseVars, callVars, uiVars>>

NoLink == [label |-> <<>>, href |-> <<>>]

\* The value of result before parseReadme returns.
NoModel ==
  [title |-> <<>>, tagline |-> <<>>, cta |-> NoLink, secondaryLinks |-> <<>>,
   features |-> <<>>, sections |-> <<>>, badges |-> Undefined,
   heroImage |-> Undefined, stats |-> Undefined, techStack |-> Undefined,
   testimonials |-> Undefined]

\* No page is mounted: the state of the user interface while parseReadme is
\* studied alone.
IdleUI ==
  /\ markdown = <<>>
  /\ pageModel = Undefined
  /\ effects = <<>>
  /\ model = Undefined
  /\ renderedSections = <<>>
  /\ renders = <<>>
  /\ download = Undefined

InitOn(pool) ==
  /\ ast \in Documents(pool)
  /\ pc = "title"
  /\ title = <<>>
  /\ tagline = <<>>
  /\ links = <<>>
  /\ sections = <<>>
  /\ cta = NoLink
  /\ secondaryLinks = <<>>
  /\ features = <<>>
  /\ badges = <<>>
  /\ heroImage = Undefined
  /\ stats = Undefined
  /\ techStack = Undefined
  /\ testimonials = Undefined
  /\ orderedSections = <<>>
  /\ result = NoModel
  /\ previous = NoModel
  /\ calls = 1
  /\ IdleUI

Init == InitOn(PoolLinks)
InitText == InitOn(PoolText)
InitSections == InitOn(PoolSections)
InitFeatures == InitOn(PoolFeatures)
InitSecondary == InitOn(PoolSecondary)
InitCode == InitOn(PoolCode)
InitIds == InitOn(PoolIds)
InitBadges == InitOn(PoolBadges)
InitHero == InitOn(PoolHero)
InitStats == InitOn(PoolStats)
InitTech == InitOn(PoolTech)
InitQuotes == InitOn(PoolQuotes)
InitTwice == InitOn(PoolMixed)
InitExport == InitOn(PoolExport)

\* const title = extractTitle(ast)
ExtractTitle ==
  /\ pc = "title"
  /\ title' = extractTitle(ast)
  /\ pc' = "tagline"
  /\ UNCHANGED <<ast, tagline, links, sections, cta, secondaryLinks,
                 features, badges, heroImage, stats, techStack,
                 testimonials, orderedSections, result>>
  /\ UNCHANGED <<callVars, uiVars>>

\* const tagline = extractTagline(ast)
ExtractTagline ==
  /\ pc = "tagline"
  /\ tagline' = extractTagline(ast)
  /\ pc' = "links"
  /\ UNCHANGED <<ast, title, links, sections, cta, secondaryLinks, features,
                 badges, heroImage, stats, techStack, testimonials,
                 orderedSections, result>>
  /\ UNCHANGED <<callVars, uiVars>>

\* const links = extractLinks(ast)
ExtractLinks ==
  /\ pc = "links"
  /\ links' = extractLinks(ast)
  /\ pc' = "sections"
  /\ UNCHANGED <<ast, title, tagline, sections, cta, secondaryLinks,
                 features, badges, heroImage, stats, techStack,
                 testimonials, orderedSections, result>>
  /\ UNCHANGED <<callVars, uiVars>>

\* const sections = extractSections(ast)
ExtractSections ==
  /\ pc = "sections"
  /\ sections' = extractSections(ast)
  /\ pc' = "cta"
  /\ UNCHANGED <<ast, title, tagline, links, cta, secondaryLinks, features,
                 badges, heroImage, stats, techStack, testimonials,
                 orderedSections, result>>
  /\ UNCHANGED <<callVars, uiVars>>

\* const cta = extractCTA(links, sections)
ExtractCTA ==
  /\ pc = "cta"
  /\ cta' = extractCTA(links, sections)
  /\ pc' = "secondaryLinks"
  /\ UNCHANGED <<ast, title, tagline, links, sections, secondaryLinks,
                 features, badges, heroImage, stats, techStack,
                 testimonials, orderedSections, result>>
  /\ UNCHANGED <<callVars, uiVars>>

\* const secondaryLinks = extractSecondaryLinks(links, cta)
ExtractSecondaryLinks ==
  /\ pc = "secondaryLinks"
  /\ secondaryLinks' = extractSecondaryLinks(links, cta)
  /\ pc' = "features"
  /\ UNCHANGED <<ast, title, tagline, links, sections, cta, features,
                 badges, heroImage, stats, techStack, testimonials,
                 orderedSections, result>>
  /\ UNCHANGED <<callVars, uiVars>>

\* const features = extractFeatures(ast)
ExtractFeatures ==
  /\ pc = "features"
  /\ features' = extractFeatures(ast)
  /\ pc' = "badges"
  /\ UNCHANGED <<ast, title, tagline, links, sections, cta, secondaryLinks,
                 badges, heroImage, stats, techStack, testimonials,
                 orderedSections, result>>
  /\ UNCHANGED <<callVars, uiVars>>

\* const badges = extractBadges(ast, links)
ExtractBadges ==
  /\ pc = "badges"
  /\ badges' = extractBadges(ast, links)
  /\ pc' = "heroImage"
  /\ UNCHANGED <<ast, title, tagline, links, sections, cta, secondaryLinks,
                 features, heroImage, stats, techStack, testimonials,
                 orderedSections, result>>
  /\ UNCHANGED <<callVars, uiVars>>

\* const heroImage = extractHeroImage(ast)
ExtractHeroImage ==
  /\ pc = "heroImage"
  /\ heroImage' = extractHeroImage(ast)
  /\ pc' = "stats"
  /\ UNCHANGED <<ast, title, tagline, links, sections, cta, secondaryLinks,
                 features, badges, stats, techStack, testimonials,
                 orderedSections, result>>
  /\ UNCHANGED <<callVars, uiVars>>

\* const stats = extractStats(ast)
ExtractStats ==
  /\ pc = "stats"
  /\ stats' = extractStats(ast)
  /\ pc' = "techStack"
  /\ UNCHANGED <<ast, title, tagline, links, sections, cta, secondaryLinks,
                 features, badges, heroImage, techStack, testimonials,
                 orderedSections, result>>
  /\ UNCHANGED <<callVars, uiVars>>

\* const techStack = extractTechStack(ast)
ExtractTechStack ==
  /\ pc = "techStack"
  /\ techStack' = extractTechStack(ast)
  /\ pc' = "testimonials"
  /\ UNCHANGED <<ast, title, tagline, links, sections, cta, secondaryLinks,
                 features, badges, heroImage, stats, testimonials,
                 orderedSections, result>>
  /\ UNCHANGED <<callVars, uiVars>>

\* const testimonials = extractTestimonials(ast)
ExtractTestimonials ==
  /\ pc = "testimonials"
  /\ testimonials' = extractTestimonials(ast)
  /\ pc' = "order"
  /\ UNCHANGED <<ast, title, tagline, links, sections, cta, secondaryLinks,
                 features, badges, heroImage, stats, techStack,
                 orderedSections, result>>
  /\ UNCHANGED <<callVars, uiVars>>

\* const orderedSections = orderSectionsIntelligently(sections)
OrderSections ==
  /\ pc = "order"
  /\ orderedSections' = orderSectionsIntelligently(sections)
  /\ pc' = "return"
  /\ UNCHANGED <<ast, title, tagline, links, sections, cta, secondaryLinks,
                 features, badges, heroImage, stats, techStack,
                 testimonials, result>>
  /\ UNCHANGED <<callVars, uiVars>>

\* A parseReadme whose features array is a variable of the module, never
\* emptied: a call returns the features of the earlier calls before its own.
Return_Accumulating ==
  /\ pc = "return"
  /\ result' = [title |-> title, tagline |-> tagline, cta |-> cta,
                secondaryLinks |-> secondaryLinks,
                features |-> previous.features \o features,
                sections |-> orderedSections, badges |-> Defined(badges),
                heroImage |-> heroImage, stats |-> stats,
                techStack |-> techStack, testimonials |-> testimonials]
  /\ pc' = "done"
  /\ UNCHANGED <<ast, title, tagline, links, sections, cta, secondaryLinks,
                 features, badges, heroImage, stats, techStack,
                 testimonials, orderedSections>>
  /\ UNCHANGED <<callVars, uiVars>>

\* return { title, tagline, cta, secondaryLinks, features,
\*          sections: orderedSections, badges, heroImage, stats, techStack,
\*          testimonials }
\* badges is always an array, so the field is always defined; the other
\* optional fields carry what their extractor returned.
Return ==
  /\ pc = "return"
  /\ result' = [title |-> title, tagline |-> tagline, cta |-> cta,
                secondaryLinks |-> secondaryLinks, features |-> features,
                sections |-> orderedSections, badges |-> Defined(badges),
                heroImage |-> heroImage, stats |-> stats,
                techStack |-> techStack, testimonials |-> testimonials]
  /\ pc' = "done"
  /\ UNCHANGED <<ast, title, tagline, links, sections, cta, secondaryLinks,
                 features, badges, heroImage, stats, techStack,
                 testimonials, orderedSections>>
  /\ UNCHANGED <<callVars, uiVars>>

\* A further call parseReadme(markdown) on the same text, after the earlier
\* call returned.  remark parses the same text to the same tree; the
\* processor and every local of parseReadme and of its extractors are
\* created anew by the call, and the module keeps no variable of its own.
Invoke ==
  /\ pc = "done"
  /\ calls < MaxCalls
  /\ previous' = result
  /\ calls' = calls + 1
  /\ pc' = "title"
  /\ title' = <<>>
  /\ tagline' = <<>>
  /\ links' = <<>>
  /\ sections' = <<>>
  /\ cta' = NoLink
  /\ secondaryLinks' = <<>>
  /\ features' = <<>>
  /\ badges' = <<>>
  /\ heroImage' = Undefined
  /\ stats' = Undefined
  /\ techStack' = Undefined
  /\ testimonials' = Undefined
  /\ orderedSections' = <<>>
  /\ result' = NoModel
  /\ UNCHANGED <<ast, uiVars>>

Next ==
  \/ ExtractTitle
  \/ ExtractTagline
  \/ ExtractLinks
  \/ ExtractSections
  \/ ExtractCTA
  \/ ExtractSecondaryLinks
  \/ ExtractFeatures
  \/ ExtractBadges
  \/ ExtractHeroImage
  \/ ExtractStats
  \/ ExtractTechStack
  \/ ExtractTestimonials
  \/ OrderSections
  \/ Return

\* parseReadme as one function of the tree: what the promise it returns
\* resolves to.
PageModelOf(tree) ==
  LET l == extractLinks(tree)
      s == extractSections(tree)
      c == extractCTA(l, s)
  IN [title |-> extractTitle(tree), tagline |-> extractTagline(tree),
      cta |-> c, secondaryLinks |-> extractSecondaryLinks(l, c),
      features |-> extractFeatures(tree),
      sections |-> orderSectionsIntelligently(s),
      badges |-> Defined(extractBadges(tree, l)),
      heroImage |-> extractHeroImage(tree), stats |-> extractStats(tree),
      techStack |-> extractTechStack(tree),
      testimonials |-> extractTestimonials(tree)]

(***************************************************************************)
(* Home (src/app/page.tsx): the editor page.  A text of the editor is the  *)
(* tree remark parses it to and the white space around it; a text is      *)
(* blank, markdown.trim() === '', when nothing but white space is in it.   *)
(***************************************************************************)
IsBlank(text) == text.tree = <<>>

\* The texts typed into the editor.
EditTexts ==
  { [tree |-> <<>>, pad |-> 0],
    [tree |-> <<>>, pad |-> 1],
    [tree |-> <<HeadingOf(1, tFoo), ParagraphOf(tDoesBar)>>, pad |-> 0],
    [tree |-> <<HeadingOf(2, tUsage), ParagraphOf(tText)>>, pad |-> 0],
    [tree |-> <<HeadingOf(2, tUsage), ParagraphOf(tText)>>, pad |-> 1] }

\* One run of the effect of Home: parseReadme(markdown).then(...) for a
\* text that is not blank, setTimeout(..., 0) for a blank one.  cancelled
\* is the flag of the run's closure; settled says that the promise's
\* callback has run, or that the timer has fired or was cleared.
EffectOf(text) ==
  [kind |-> IF IsBlank(text) THEN "timer" ELSE "parse", text |-> text,
   cancelled |-> FALSE, settled |-> FALSE]

\* return () => { clearTimeout(timer); cancelled = true; }  and
\* return () => { cancelled = true; }
Cleanup(e) ==
  [e EXCEPT !.cancelled = TRUE,
            !.settled = IF e.kind = "timer" THEN TRUE ELSE e.settled]

\* A callback that ignores the flag of its run.
Applies_Always(e) == TRUE

\* if (!cancelled) { ... }
Applies(e) == ~e.cancelled

\* No call of parseReadme is followed step by step: the state of the parser
\* while the user interface is studied, which uses PageModelOf.
IdleParse ==
  /\ ast = <<>>
  /\ pc = "done"
  /\ title = <<>>
  /\ tagline = <<>>
  /\ links = <<>>
  /\ sections = <<>>
  /\ cta = NoLink
  /\ secondaryLinks = <<>>
  /\ features = <<>>
  /\ badges = <<>>
  /\ heroImage = Undefined
  /\ stats = Undefined
  /\ techStack = Undefined
  /\ testimonials = Undefined
  /\ orderedSections = <<>>
  /\ result = NoModel
  /\ previous = NoModel
  /\ calls = MaxCalls

\* useState(''), useState(null), and the effect of the first render.
InitHome ==
  /\ markdown = [tree |-> <<>>, pad |-> 0]
  /\ pageModel = Undefined
  /\ effects = <<EffectOf([tree |-> <<>>, pad |-> 0])>>
  /\ model = Undefined
  /\ renderedSections = <<>>
  /\ renders = <<>>
  /\ download = Undefined
  /\ IdleParse

\* onChange={(e) => setMarkdown(e.target.value)} with a text that differs
\* from the state, the render it causes, and the effects of that render:
\* the cleanup of the run before, then a new run.  React renders and runs
\* the effects of an input event before it returns to the event loop, so no
\* callback of a promise or timer runs in between.
SetMarkdown(text) ==
  /\ text # markdown
  /\ Len(effects) <= MaxEdits
  /\ markdown' = text
  /\ effects' = [i \in 1..Len(effects) |->
                   IF i = Len(effects) THEN Cleanup(effects[i])
                                       ELSE effects[i]]
                 \o <<EffectOf(text)>>
  /\ UNCHANGED <<pageModel, model, renderedSections, renders, download>>
  /\ UNCHANGED <<parseVars, callVars>>

\* .then((model) => { if (!cancelled) { setPageModel(model); } })
ParseResolved(i) ==
  /\ effects[i].kind = "parse"
  /\ ~effects[i].settled
  /\ effects' = [effects EXCEPT ![i].settled = TRUE]
  /\ pageModel' = IF Applies(effects[i])
                    THEN Defined(PageModelOf(effects[i].text.tree))
                    ELSE pageModel
  /\ UNCHANGED <<markdown, model, renderedSections, renders, download>>
  /\ UNCHANGED <<parseVars, callVars>>

\* setTimeout(() => { if (!cancelled) { setPageModel(null); } }, 0)
TimerFired(i) ==
  /\ effects[i].kind = "timer"
  /\ ~effects[i].settled
  /\ effects' = [effects EXCEPT ![i].settled = TRUE]
  /\ pageModel' = IF Applies(effects[i]) THEN Undefined ELSE pageModel
  /\ UNCHANGED <<markdown, model, renderedSections, renders, download>>
  /\ UNCHANGED <<parseVars, callVars>>

NextHome ==
  \/ \E text \in EditTexts : SetMarkdown(text)
  \/ \E i \in 1..Len(effects) : ParseResolved(i)
  \/ \E i \in 1..Len(effects) : TimerFired(i)

\* The editor page under edits and completions in any order.
SpecHome == InitHome /\ [][NextHome]_vars

(***************************************************************************)
(* LandingPage (src/components/landing-page.tsx) shown by Home with        *)
(* model={pageModel}, and the export of Home (generateHTML).  The markup   *)
(* remark-html makes of a markdown string is the string between the tags   *)
(* of a block: it differs from the string and tells the strings apart.     *)
(***************************************************************************)
Rendered(content) == <<"<p>">> \o content \o <<"</p>">>

\* The models Home passes to the page: sections of one text, of the text
\* with other content, of a text with two headings, and of a text with the
\* same heading twice.
PageModels ==
  { PageModelOf(<<HeadingOf(2, tUsage), ParagraphOf(tText)>>),
    PageModelOf(<<HeadingOf(2, tUsage), ParagraphOf(tMit)>>),
    PageModelOf(<<HeadingOf(2, tUsage), ParagraphOf(tText),
                  HeadingOf(2, tNotes), ParagraphOf(tMit)>>),
    PageModelOf(<<HeadingOf(2, tUsage), ParagraphOf(tText),
                  HeadingOf(2, tUsage), ParagraphOf(tMit)>>) }

\* model.sections.map(async (section) => processor.process(...)): one
\* pending rendering for each section.  failedAt holds the sections whose
\* promise rejected; applied says that the callback of Promise.all has run.
RenderRun(secs) ==
  [sections |-> secs, pending |-> 1..Len(secs), failedAt |-> {},
   applied |-> FALSE]

\* results.forEach(({ id, html }) => { htmlMap[id] = html; }): the last
\* section of an id gives the entry of the id.
HtmlMapOf(secs) ==
  [id \in {secs[k].id : k \in 1..Len(secs)} |->
     LET last == CHOOSE k \in 1..Len(secs) :
                   /\ secs[k].id = id
                   /\ \A j \in (k + 1)..Len(secs) : secs[j].id # id
     IN Rendered(secs[last].content)]

\* __html: renderedSections[section.id] || section.content
Displayed(section) ==
  IF /\ section.id \in DOMAIN renderedSections
     /\ renderedSections[section.id] # <<>>
  THEN renderedSections[section.id]
  ELSE section.content

\* Nothing is displayed yet: pageModel is null and LandingPage not mounted.
InitLanding ==
  /\ markdown = <<>>
  /\ pageModel = Undefined
  /\ effects = <<>>
  /\ model = Undefined
  /\ renderedSections = <<>>
  /\ renders = <<>>
  /\ download = Undefined
  /\ IdleParse

\* setPageModel(m) in Home and the render of <LandingPage model={m} />:
\* model.sections is a new array, so the effect runs again.  It has no
\* cleanup, and renderedSections keeps its entries (useState({}) holds for
\* the first render only).
SetModel(m) ==
  /\ Len(renders) < MaxRenders
  /\ pageModel' = Defined(m)
  /\ model' = Defined(m)
  /\ renders' = Append(renders, RenderRun(m.sections))
  /\ UNCHANGED <<markdown, effects, renderedSections, download>>
  /\ UNCHANGED <<parseVars, callVars>>

\* await processor.process(section.content) resolves for section k of run r.
SectionRendered(r, k) ==
  /\ k \in renders[r].pending
  /\ renders' = [renders EXCEPT ![r].pending = @ \ {k}]
  /\ UNCHANGED <<markdown, pageModel, effects, model, renderedSections,
                 download>>
  /\ UNCHANGED <<parseVars, callVars>>

\* await processor.process(section.content) rejects for section k of run r:
\* the promise of the section rejects, and so does Promise.all.
SectionFailed(r, k) ==
  /\ k \in renders[r].pending
  /\ renders' = [renders EXCEPT ![r].pending = @ \ {k},
                                ![r].failedAt = @ \cup {k}]
  /\ UNCHANGED <<markdown, pageModel, effects, model, renderedSections,
                 download>>
  /\ UNCHANGED <<parseVars, callVars>>

\* Promise.all(renderPromises).then((results) => { ...
\*   setRenderedSections(htmlMap); }): runs when every rendering of the run
\* resolved, whatever the model is by then; there is no .catch.
RendersApplied(r) ==
  /\ renders[r].pending = {}
  /\ renders[r].failedAt = {}
  /\ ~renders[r].applied
  /\ renders' = [renders EXCEPT ![r].applied = TRUE]
  /\ renderedSections' = HtmlMapOf(renders[r].sections)
  /\ UNCHANGED <<markdown, pageModel, effects, model, download>>
  /\ UNCHANGED <<parseVars, callVars>>

\* escapeHtml: div.textContent = text; return div.innerHTML.  The browser
\* serialises the text node of the div: & < > and the no-break space
\* become entities, every other character, the quotation marks among them,
\* stays as it is.
EscapeChar(c) ==
  IF c = "&" THEN <<"&","a","m","p",";">>
  ELSE IF c = "<" THEN <<"&","l","t",";">>
  ELSE IF c = ">" THEN <<"&","g","t",";">>
  ELSE IF c = "nbsp" THEN <<"&","n","b","s","p",";">>
  ELSE <<c>>

escapeHtml(text) == Concat([i \in 1..Len(text) |-> EscapeChar(text[i])])

\* <title>${escapeHtml(model.title)}</title>
TitleHtml(m) ==
  <<"<","t","i","t","l","e",">">> \o escapeHtml(m.title)
    \o <<"<","/","t","i","t","l","e",">">>

\* <h1>${escapeHtml(model.title)}</h1>
HeadlineHtml(m) ==
  <<"<","h","1",">">> \o escapeHtml(m.title) \o <<"<","/","h","1",">">>

\* <p>${escapeHtml(model.tagline)}</p>
TaglineHtml(m) ==
  <<"<","p",">">> \o escapeHtml(m.tagline) \o <<"<","/","p",">">>

\* <span class="badge">${escapeHtml(b.label)}</span>
BadgeHtml(b) ==
  <<"<","s","p","a","n"," ","c","l","a","s","s","=","\"","b",
        "a","d","g","e","\"",">">>
    \o escapeHtml(b.label) \o <<"<","/","s","p","a","n",">">>

\* <a href="${escapeHtml(l.href)}" class="btn btn-...">
\*   ${escapeHtml(l.label)}</a>, for the CTA (kind primary) and for the
\* secondary links (kind secondary).
AnchorHtml(l, kind) ==
  <<"<","a"," ","h","r","e","f","=","\"">> \o escapeHtml(l.href)
    \o <<"\""," ","c","l","a","s","s","=","\"","b","t","n"," ","b",
        "t","n","-">>
    \o kind \o <<"\"", ">">> \o escapeHtml(l.label) \o <<"<","/","a",">">>

\* <img src="${escapeHtml(model.heroImage.url)}"
\*      alt="${escapeHtml(model.heroImage.alt)}" class="hero-image" />
HeroImageHtml(m) ==
  IF m.heroImage = Undefined THEN <<>>
  ELSE <<"<","i","m","g"," ","s","r","c","=","\"">>
         \o escapeHtml(m.heroImage[1].url)
         \o <<"\""," ","a","l","t","=","\"">>
         \o escapeHtml(m.heroImage[1].alt)
         \o <<"\""," ","c","l","a","s","s","=","\"","h","e","r","o","-",
        "i","m","a","g","e","\""," ","/",">">>

\* generateHTML: the parts of the document that hold literal strings of the
\* model.
DocumentOf(m) ==
  [title |-> TitleHtml(m), headline |-> HeadlineHtml(m),
   tagline |-> TaglineHtml(m),
   badges |-> IF m.badges = Undefined THEN <<>>
              ELSE [i \in 1..Len(m.badges[1]) |-> BadgeHtml(m.badges[1][i])],
   cta |-> AnchorHtml(m.cta, <<"p","r","i","m","a","r","y">>),
   secondaryLinks |->
     [i \in 1..Len(m.secondaryLinks) |->
        AnchorHtml(m.secondaryLinks[i], <<"s","e","c","o","n","d","a","r","y">>)],
   heroImage |-> HeroImageHtml(m)]

\* downloadHTML / copyHTML: if (!pageModel) return;
\* const html = await generateHTML(pageModel), which starts
\* processor.process(s.content) for every section.
StartExport ==
  /\ pageModel # Undefined
  /\ download = Undefined
  /\ download' = Defined([model |-> pageModel[1],
                          pending |-> 1..Len(pageModel[1].sections),
                          failedAt |-> {}, status |-> "running",
                          html |-> Undefined])
  /\ UNCHANGED <<markdown, pageModel, effects, model, renderedSections,
                 renders>>
  /\ UNCHANGED <<parseVars, callVars>>

\* generateHTML: await processor.process(s.content) resolves for section k.
SectionExported(k) ==
  /\ download # Undefined
  /\ k \in download[1].pending
  /\ download' = Defined([download[1] EXCEPT !.pending = @ \ {k}])
  /\ UNCHANGED <<markdown, pageModel, effects, model, renderedSections,
                 renders>>
  /\ UNCHANGED <<parseVars, callVars>>

\* generateHTML: await processor.process(s.content) rejects for section k;
\* await Promise.all(sectionsHTMLPromises) throws, generateHTML rejects, and
\* downloadHTML / copyHTML, which have no try, stop at their await.
SectionExportFailed(k) ==
  /\ download # Undefined
  /\ k \in download[1].pending
  /\ download' = Defined([download[1] EXCEPT
                            !.pending = @ \ {k},
                            !.failedAt = @ \cup {k},
                            !.status = "aborted"])
  /\ UNCHANGED <<markdown, pageModel, effects, model, renderedSections,
                 renders>>
  /\ UNCHANGED <<parseVars, callVars>>

\* Every section is rendered: generateHTML returns the document and
\* downloadHTML / copyHTML hand it over.
ExportFinished ==
  /\ download # Undefined
  /\ download[1].status = "running"
  /\ download[1].pending = {}
  /\ download' = Defined([download[1] EXCEPT
                            !.status = "saved",
                            !.html = Defined(DocumentOf(download[1].model))])
  /\ UNCHANGED <<markdown, pageModel, effects, model, renderedSections,
                 renders>>
  /\ UNCHANGED <<parseVars, callVars>>

\* The sections of the model under export.
ExportIndices ==
  IF download = Undefined THEN {}
  ELSE 1..Len(download[1].model.sections)

NextLanding ==
  \/ \E m \in PageModels : SetModel(m)
  \/ \E r \in 1..Len(renders) :
        \E k \in 1..Len(renders[r].sections) : SectionRendered(r, k)
  \/ \E r \in 1..Len(renders) :
        \E k \in 1..Len(renders[r].sections) : SectionFailed(r, k)
  \/ \E r \in 1..Len(renders) : RendersApplied(r)
  \/ StartExport
  \/ \E k \in ExportIndices : SectionExported(k)
  \/ \E k \in ExportIndices : SectionExportFailed(k)
  \/ ExportFinished

\* The landing page and the export under model changes, renderings
\* completing in any order, and renderings failing.
SpecLanding == InitLanding /\ [][NextLanding]_vars

\* Home displays the model parseReadme returned: setPageModel(model).  The
\* renderings of the page are not followed further here.
ShowResult ==
  /\ pc = "done"
  /\ pageModel = Undefined
  /\ SetModel(result)

\* parseReadme on a text, and the export of the model it returned.
NextExport ==
  \/ Next
  \/ ShowResult
  \/ StartExport
  \/ \E k \in ExportIndices : SectionExported(k)
  \/ \E k \in ExportIndices : SectionExportFailed(k)
  \/ ExportFinished

\* The export of the documents parseReadme makes of hostile texts.
SpecExport == InitExport /\ [][NextExport]_vars

\* parseReadme called repeatedly on one text.
NextTwice ==
  \/ Next
  \/ Invoke

\* parseReadme on link documents.
Spec == Init /\ [][Next]_vars
\* parseReadme on title and tagline documents.
SpecText == InitText /\ [][Next]_vars
\* parseReadme on section documents.
SpecSections == InitSections /\ [][Next]_vars
\* parseReadme on feature documents.
SpecFeatures == InitFeatures /\ [][Next]_vars
\* parseReadme on link-list documents.
SpecSecondary == InitSecondary /\ [][Next]_vars
\* parseReadme on code-block documents.
SpecCode == InitCode /\ [][Next]_vars
\* parseReadme on heading documents.
SpecIds == InitIds /\ [][Next]_vars
\* parseReadme on badge documents.
SpecBadges == InitBadges /\ [][Next]_vars
\* parseReadme on image documents.
SpecHero == InitHero /\ [][Next]_vars
\* parseReadme on number documents.
SpecStats == InitStats /\ [][Next]_vars
\* parseReadme on technology documents.
SpecTech == InitTech /\ [][Next]_vars
\* parseReadme on quote documents.
SpecQuotes == InitQuotes /\ [][Next]_vars
\* Repeated calls of parseReadme on mixed documents.
SpecTwice == InitTwice /\ [][NextTwice]_vars

(***************************************************************************)
(* Claims.  A claim about the returned model is stated of the state after  *)
(* Return (pc = "done"); links and sections are then the link list and     *)
(* the segmenter's sections in document order.                             *)
(***************************************************************************)
Done == pc = "done"

\* The index of the first element of seq satisfying P (0: none), stated
\* without the model's FirstIndex.
ClaimFirst(seq, P(_)) ==
  IF \E i \in 1..Len(seq) : P(seq[i])
  THEN CHOOSE i \in 1..Len(seq) : P(seq[i]) /\ \A j \in 1..(i - 1) : ~P(seq[j])
  ELSE 0

\* The action keywords as the specification lists them.
ClaimKeywords ==
  { <<"d","e","m","o">>, <<"l","i","v","e">>, <<"t","r","y">>,
    <<"w","e","b","s","i","t","e">>,
    <<"p","l","a","y","g","r","o","u","n","d">>, <<"a","p","p">>,
    <<"d","e","p","l","o","y">> }

\* The label or the URL contains an action keyword, ignoring case.
ClaimHasKeyword(link) ==
  \E k \in ClaimKeywords :
    Includes(ToLowerCase(link.label), k) \/ Includes(ToLowerCase(link.href), k)

\* A link the keyword step accepts: a keyword, and a URL that is no anchor.
ClaimEligible(link) ==
  ClaimHasKeyword(link) /\ (link.href = <<>> \/ Head(link.href) # "#")

\* A section of the installation/quick-start step: the title holds
\* "install" or "quick start", or the id "installation", "setup" or
\* "quick-start".
ClaimInstallSection(s) ==
  \/ Includes(ToLowerCase(s.title), <<"i","n","s","t","a","l","l">>)
  \/ Includes(ToLowerCase(s.title),
              <<"q","u","i","c","k"," ","s","t","a","r","t">>)
  \/ Includes(s.id, <<"i","n","s","t","a","l","l","a","t","i","o","n">>)
  \/ Includes(s.id, <<"s","e","t","u","p">>)
  \/ Includes(s.id, <<"q","u","i","c","k","-","s","t","a","r","t">>)

\* s ends with suffix.
ClaimEndsWith(s, suffix) ==
  Len(suffix) <= Len(s)
  /\ SubSeq(s, Len(s) - Len(suffix) + 1, Len(s)) = suffix

\* The host of the URL is the code-hosting domain github.com or one of its
\* subdomains.
ClaimCodeHost(link) ==
  \/ Hostname(link.href) = sGithubCom
  \/ ClaimEndsWith(Hostname(link.href), <<".">> \o sGithubCom)

\* The CTA of the four-step chain of C1.
ClaimChain(ls, ss) ==
  IF ClaimFirst(ls, ClaimEligible) # 0
  THEN ls[ClaimFirst(ls, ClaimEligible)]
  ELSE IF ClaimFirst(ss, ClaimInstallSection) # 0
  THEN [label |-> sGetStarted,
        href  |-> <<"#">> \o ss[ClaimFirst(ss, ClaimInstallSection)].id]
  ELSE IF ClaimFirst(ls, ClaimCodeHost) # 0
  THEN [label |-> sViewOnGitHub,
        href  |-> ls[ClaimFirst(ls, ClaimCodeHost)].href]
  ELSE [label |-> sGetStarted, href |-> <<"#">>]

\* C1: the CTA is the result of the ordered chain: the first eligible
\* action-keyword link; else 'Get Started' to the installation section's
\* anchor; else the first link whose URL host is a code-hosting domain, as
\* 'View on GitHub'; else the fixed {Get Started, #}.
C1_FallbackChain == Done => result.cta = ClaimChain(links, sections)

\* C2 as stated: the first link with an action keyword whose URL is not the
\* bare placeholder '#' is the CTA, whatever the sections and later links.
ClaimEligibleBare(link) == ClaimHasKeyword(link) /\ link.href # <<"#">>

C2_FirstKeywordLinkNotBare ==
  Done /\ ClaimFirst(links, ClaimEligibleBare) # 0
    => result.cta = links[ClaimFirst(links, ClaimEligibleBare)]

\* C2 amended: the first link with an action keyword in its label or URL
\* (ignoring case) whose URL does not start with '#' is the CTA, with its
\* own label and href, whatever the sections and later links.
C2_FirstKeywordLinkNoAnchor ==
  Done /\ ClaimFirst(links, ClaimEligible) # 0
    => result.cta = links[ClaimFirst(links, ClaimEligible)]

\* C2 witness: the CTA is a keyword link that is not the first link, an
\* earlier keyword link being an anchor, in a document with an
\* installation section.
C2_Witness ==
  /\ Done
  /\ ClaimFirst(links, ClaimEligible) > 1
  /\ ClaimHasKeyword(links[1])
  /\ ClaimFirst(sections, ClaimInstallSection) # 0
  /\ result.cta = links[ClaimFirst(links, ClaimEligible)]

\* C3: when the CTA comes from the installation step (no link passes the
\* keyword step and a section matches), it is 'Get Started' to '#' + the id
\* of the first matching section in document order, and the returned
\* sections hold a section with that id.
FromInstallStep ==
  /\ ClaimFirst(links, ClaimEligible) = 0
  /\ ClaimFirst(sections, ClaimInstallSection) # 0

C3_InstallAnchor ==
  Done /\ FromInstallStep
    => LET first == sections[ClaimFirst(sections, ClaimInstallSection)]
       IN  /\ result.cta.label = sGetStarted
           /\ result.cta.href = <<"#">> \o first.id
           /\ \E i \in 1..Len(result.sections) :
                result.sections[i].id = first.id

\* C3 witness: the installation step decides, and the section it points at
\* is not the first of the returned (reordered) sections.
C3_Witness ==
  /\ Done
  /\ FromInstallStep
  /\ result.cta.href = <<"#">> \o
       sections[ClaimFirst(sections, ClaimInstallSection)].id
  /\ result.sections[1].id #
       sections[ClaimFirst(sections, ClaimInstallSection)].id

\* C4: no secondary link has the CTA's href, and none has the bare
\* placeholder '#'.
C4_NoCtaNoPlaceholder ==
  Done => \A i \in 1..Len(result.secondaryLinks) :
            /\ result.secondaryLinks[i].href # result.cta.href
            /\ result.secondaryLinks[i].href # <<"#">>

\* C4 witness: the link list holds the CTA's href twice and the bare
\* placeholder, and secondary links are returned.
C4_Witness ==
  /\ Done
  /\ Cardinality({i \in 1..Len(links) : links[i].href = result.cta.href}) >= 2
  /\ \E i \in 1..Len(links) : links[i].href = <<"#">>
  /\ result.cta.href # <<"#">>

\* C5: the ids of the returned sections are pairwise distinct.
C5_UniqueIds ==
  Done => \A i, j \in 1..Len(result.sections) :
            i # j => result.sections[i].id # result.sections[j].id

\* The priority list as C6 states it.
ClaimPriority ==
  << <<"h","o","w","-","i","t","-","w","o","r","k","s">>,
     <<"q","u","i","c","k","-","s","t","a","r","t">>,
     <<"i","n","s","t","a","l","l","a","t","i","o","n">>,
     <<"g","e","t","t","i","n","g","-","s","t","a","r","t","e","d">>,
     <<"u","s","a","g","e">>,
     <<"e","x","a","m","p","l","e","s">>,
     <<"d","e","m","o">>,
     <<"c","o","n","f","i","g","u","r","a","t","i","o","n">>,
     <<"a","p","i">>,
     <<"d","o","c","u","m","e","n","t","a","t","i","o","n">>,
     <<"t","e","c","h","-","s","t","a","c","k">>,
     <<"p","r","o","j","e","c","t","-","s","t","r","u","c","t","u","r","e">>,
     <<"c","o","n","t","r","i","b","u","t","i","n","g">>,
     <<"r","o","a","d","m","a","p">>,
     <<"f","a","q">>,
     <<"t","r","o","u","b","l","e","s","h","o","o","t","i","n","g">>,
     <<"c","h","a","n","g","e","l","o","g">>,
     <<"a","c","k","n","o","w","l","e","d","g","m","e","n","t","s">>,
     <<"l","i","c","e","n","s","e">>,
     <<"c","o","n","n","e","c","t">> >>

\* The id contains, or is contained by, the keyword.
ClaimTouches(id, keyword) == Includes(id, keyword) \/ Includes(keyword, id)

\* The greedy pass of C6 as stated, over the keywords kws: the indices of
\* the placed sections, in placing order (placed: those placed so far).
RECURSIVE ClaimGreedy(_, _, _)
ClaimGreedy(kws, ss, placed) ==
  IF kws = <<>> THEN placed
  ELSE
    LET free == {i \in 1..Len(ss) :
                   /\ \A p \in 1..Len(placed) : placed[p] # i
                   /\ ClaimTouches(ss[i].id, Head(kws))}
    IN  IF free = {} THEN ClaimGreedy(Tail(kws), ss, placed)
        ELSE ClaimGreedy(Tail(kws), ss,
               Append(placed, CHOOSE i \in free : \A j \in free : i <= j))

\* The sections at the indices idx, then the other sections in document
\* order.
ClaimPlacedThenRest(ss, idx) ==
  [p \in 1..Len(idx) |-> ss[idx[p]]]
  \o SelectSeq(ss, LAMBDA s : \A p \in 1..Len(idx) : ss[idx[p]] # s)

DistinctIds(ss) == \A i, j \in 1..Len(ss) : i # j => ss[i].id # ss[j].id

\* C6 as stated, for documents whose section ids are distinct: the output
\* is the greedy pass over the twenty keywords of the claim, then the
\* sections no keyword placed.
C6_GreedyOverStatedList ==
  Done /\ DistinctIds(sections)
    => result.sections =
         ClaimPlacedThenRest(sections,
                             ClaimGreedy(ClaimPriority, sections, <<>>))

\* The greedy pass over the ids: for each keyword the first id, in order of
\* first occurrence, that is not placed yet and touches the keyword.
RECURSIVE ClaimGreedyIds(_, _, _)
ClaimGreedyIds(kws, ss, placed) ==
  IF kws = <<>> THEN placed
  ELSE
    LET free == {i \in 1..Len(ss) :
                   /\ \A p \in 1..Len(placed) : placed[p] # ss[i].id
                   /\ ClaimTouches(ss[i].id, Head(kws))}
    IN  IF free = {} THEN ClaimGreedyIds(Tail(kws), ss, placed)
        ELSE ClaimGreedyIds(Tail(kws), ss,
               Append(placed,
                      ss[CHOOSE i \in free : \A j \in free : i <= j].id))

\* The last section of ss carrying the id.
ClaimLastWithId(ss, id) ==
  LET at == {i \in 1..Len(ss) : ss[i].id = id}
  IN  ss[CHOOSE i \in at : \A j \in at : i >= j]

\* The placed ids' sections, then the sections whose id was never placed.
ClaimOrdered(ss) ==
  LET ids == ClaimGreedyIds(priorityOrder, ss, <<>>)
  IN  [p \in 1..Len(ids) |-> ClaimLastWithId(ss, ids[p])]
      \o SelectSeq(ss, LAMBDA s : \A p \in 1..Len(ids) : ids[p] # s.id)

SectionIds(ss) == [i \in 1..Len(ss) |-> ss[i].id]

idLicense == <<"l","i","c","e","n","s","e">>
idInstallation == <<"i","n","s","t","a","l","l","a","t","i","o","n">>
idFaq == <<"f","a","q">>

\* C6 amended: the output is the greedy pass over the twenty-eight
\* keywords of the code's list (the stated twenty, their spelled-with-space
\* variants, install and idea-categories): each keyword in turn places the
\* first not-yet-placed id that contains or is contained by it, appending
\* the last section that carries the id; the sections whose id was never
\* placed follow in document order. Sections license, installation, faq
\* come out as installation, faq, license.
C6_GreedyOverCodeList ==
  Done => /\ result.sections = ClaimOrdered(sections)
          /\ SectionIds(sections) = <<idLicense, idInstallation, idFaq>>
               => SectionIds(result.sections)
                    = <<idInstallation, idFaq, idLicense>>

\* C6 witness: the document license, installation, faq, reordered.
C6_Witness ==
  /\ Done
  /\ SectionIds(sections) = <<idLicense, idInstallation, idFaq>>
  /\ SectionIds(result.sections) = <<idInstallation, idFaq, idLicense>>

\* The permutations of 1..n.
IndexPermutations(n) ==
  {f \in [1..n -> 1..n] : \A i, j \in 1..n : i # j => f[i] # f[j]}

\* C7: the orderer only reorders: the output holds every section of the
\* segmenter exactly once, unaltered, and the sections no keyword placed
\* come last, in document order.
C7_OnlyReorders ==
  Done =>
    /\ Len(result.sections) = Len(sections)
    /\ \E f \in IndexPermutations(Len(sections)) :
         \A i \in 1..Len(sections) : result.sections[i] = sections[f[i]]
    /\ LET ids  == ClaimGreedyIds(priorityOrder, sections, <<>>)
           rest == SelectSeq(sections,
                     LAMBDA s : \A p \in 1..Len(ids) : ids[p] # s.id)
       IN  /\ Len(rest) <= Len(result.sections)
           /\ SubSeq(result.sections,
                     Len(result.sections) - Len(rest) + 1,
                     Len(result.sections)) = rest

\* The text of a node and its trimmed text, for the claims.
ClaimText(node) == extractTextFromNode(node)
ClaimTrimmed(node) == Trim(extractTextFromNode(node))

\* The depth-1 headings and the non-blank paragraphs of the whole tree, in
\* document order.
ClaimH1s == SelectSeq(Visit(ast), LAMBDA n : n.type = "heading" /\ n.depth = 1)
ClaimParagraphs ==
  SelectSeq(Visit(ast),
            LAMBDA n : n.type = "paragraph" /\ ClaimTrimmed(n) # <<>>)

\* C8 as stated: the title is not empty; it is the text of the first
\* depth-1 heading; without a depth-1 heading, the text of the first
\* non-empty paragraph; without one, 'Untitled Project'.
C8_TitleOfFirstH1 ==
  Done =>
    /\ result.title # <<>>
    /\ result.title =
         IF ClaimH1s # <<>> THEN ClaimText(Head(ClaimH1s))
         ELSE IF ClaimParagraphs # <<>> THEN ClaimTrimmed(Head(ClaimParagraphs))
         ELSE sUntitledProject

\* The depth-1 headings whose text is not empty.
ClaimTextH1s == SelectSeq(ClaimH1s, LAMBDA n : ClaimText(n) # <<>>)

\* C8 amended: the title is not empty; it is the text of the first depth-1
\* heading whose text is not empty; when no depth-1 heading has text, the
\* trimmed text of the first paragraph whose text is not blank; without
\* one, 'Untitled Project'.
C8_TitleOfFirstH1WithText ==
  Done =>
    /\ result.title # <<>>
    /\ result.title =
         IF ClaimTextH1s # <<>> THEN ClaimText(Head(ClaimTextH1s))
         ELSE IF ClaimParagraphs # <<>> THEN ClaimTrimmed(Head(ClaimParagraphs))
         ELSE sUntitledProject

\* C8 witness: the first depth-1 heading has no text (it holds an image
\* only), and the title is another heading's or a paragraph's text.
C8_Witness ==
  /\ Done
  /\ ClaimH1s # <<>>
  /\ ClaimText(Head(ClaimH1s)) = <<>>
  /\ result.title # sUntitledProject

\* A text of more than 160 characters cut to its first 157 and '...'.
ClaimTruncated(t) ==
  IF Len(t) > 160 THEN SubSeq(t, 1, 157) \o <<".", ".", ".">> ELSE t

\* C9: the tagline is not empty and at most 160 characters long; a
\* selected text of more than 160 characters is replaced by its first 157
\* characters and '...'.
C9_TaglineBounded ==
  Done =>
    /\ result.tagline # <<>>
    /\ Len(result.tagline) <= 160
    /\ Len(TaglineSelected(ast)) > 160
         => result.tagline =
              SubSeq(TaglineSelected(ast), 1, 157) \o <<".", ".", ".">>

\* C9 witness: a text of more than 160 characters was selected and cut.
C9_Witness ==
  /\ Done
  /\ Len(TaglineSelected(ast)) > 160
  /\ Len(result.tagline) = 160

\* The top-level position of the first depth-1 heading (0: none).
ClaimFirstH1 ==
  LET h1 == {i \in 1..Len(ast) : ast[i].type = "heading" /\ ast[i].depth = 1}
  IN  IF h1 = {} THEN 0 ELSE CHOOSE i \in h1 : \A j \in h1 : i <= j

\* The least element of a non-empty set of positions.
ClaimMin(S) == CHOOSE i \in S : \A j \in S : i <= j

\* C10 as stated: the positions after the first depth-1 heading of the
\* paragraphs and block quotes that are non-empty and shorter than 200.
ClaimShortBlocks ==
  {i \in 1..Len(ast) :
     /\ ClaimFirstH1 # 0 /\ i > ClaimFirstH1
     /\ ast[i].type \in {"paragraph", "blockquote"}
     /\ ClaimTrimmed(ast[i]) # <<>>
     /\ Len(ClaimTrimmed(ast[i])) < 200}

\* C10 as stated: the tagline is the text (cut to 160 as in C9) of the
\* first paragraph or block quote after the first depth-1 heading that is
\* non-empty and shorter than 200 characters.
C10_FirstShortBlock ==
  Done /\ ClaimShortBlocks # {}
    => result.tagline =
         ClaimTruncated(ClaimTrimmed(ast[ClaimMin(ClaimShortBlocks)]))

\* C10 amended: the positions of the top-level paragraphs after the first
\* top-level depth-1 heading, with no heading of depth 2 or more between
\* that heading and them, that are non-blank and shorter than 200.
ClaimShortParagraphs ==
  {i \in 1..Len(ast) :
     /\ ClaimFirstH1 # 0 /\ i > ClaimFirstH1
     /\ ast[i].type = "paragraph"
     /\ ClaimTrimmed(ast[i]) # <<>>
     /\ Len(ClaimTrimmed(ast[i])) < 200}

ClaimBeforeFirstH2(i) ==
  \A j \in (ClaimFirstH1 + 1)..(i - 1) :
    ~(ast[j].type = "heading" /\ ast[j].depth >= 2)

\* C10 amended: when the first non-blank top-level paragraph shorter than
\* 200 characters after the first top-level depth-1 heading comes before
\* any heading of depth 2 or more that follows this heading, the tagline
\* is its trimmed text (cut to 160 as in C9); block quotes are not looked
\* at, and a later such paragraph never replaces it, even a shorter one.
C10_FirstShortParagraph ==
  Done /\ ClaimShortParagraphs # {}
       /\ ClaimBeforeFirstH2(ClaimMin(ClaimShortParagraphs))
    => result.tagline =
         ClaimTruncated(ClaimTrimmed(ast[ClaimMin(ClaimShortParagraphs)]))

\* C10 witness: the paragraph chosen is followed by a shorter one.
C10_Witness ==
  /\ Done
  /\ ClaimShortParagraphs # {}
  /\ ClaimBeforeFirstH2(ClaimMin(ClaimShortParagraphs))
  /\ \E j \in ClaimShortParagraphs :
       /\ j > ClaimMin(ClaimShortParagraphs)
       /\ Len(ClaimTrimmed(ast[j]))
            < Len(ClaimTrimmed(ast[ClaimMin(ClaimShortParagraphs)]))
  /\ result.tagline =
       ClaimTruncated(ClaimTrimmed(ast[ClaimMin(ClaimShortParagraphs)]))

\* The heading-adjacent scan yields nothing: no depth-1 heading at the top
\* level, no short non-blank paragraph after it, or a heading of depth 2
\* or more before the first such paragraph.
ClaimScanEmpty ==
  \/ ClaimShortParagraphs = {}
  \/ ~ClaimBeforeFirstH2(ClaimMin(ClaimShortParagraphs))

ClaimShortAnywhere ==
  SelectSeq(ClaimParagraphs, LAMBDA n : Len(ClaimTrimmed(n)) < 200)

ClaimOptionalCollections == {"badges", "stats", "techStack", "testimonials"}

\* C12: in the returned result every optional collection (badges, stats,
\* techStack, testimonials) is either omitted or non-empty.
C12_OptionalNonEmpty ==
  Done => \A f \in ClaimOptionalCollections :
            result[f] = Undefined \/ result[f][1] # <<>>

\* C12 without badges: stats, techStack and testimonials are omitted or
\* non-empty.
C12_OthersNonEmpty ==
  Done => \A f \in ClaimOptionalCollections \ {"badges"} :
            result[f] = Undefined \/ result[f][1] # <<>>

\* The document of C13: '# Foo', 'Does bar.', '## Features' with the list
\* '- **Fast** - very fast', '## Installation' with the fenced block
\* 'npm i foo' tagged bash.
ClaimExample ==
  <<HeadingOf(1, tFoo), ParagraphOf(tDoesBar),
    HeadingOf(2, tFeatures),
    List(<<ItemOf(<<Strong(<<Text(tFast)>>), Text(tDashVeryFast)>>)>>),
    HeadingOf(2, tInstallation), Code(tBash, tNpmIFoo)>>

\* The fenced block as markdown text.
ClaimFence ==
  <<"BACKTICK","BACKTICK","BACKTICK","b","a","s","h","\n">> \o tNpmIFoo
  \o <<"\n","BACKTICK","BACKTICK","BACKTICK">>

\* What C13 says of title, tagline, features and cta.
ClaimExampleHead ==
  /\ result.title = tFoo
  /\ result.tagline = tDoesBar
  /\ Len(result.features) = 1
  /\ result.features[1].title = tFast
  /\ result.features[1].desc = <<tVeryFast>>
  /\ result.cta = [label |-> <<"G","e","t"," ","S","t","a","r","t","e","d">>,
                   href  |-> <<"#">> \o idInstallation]

\* section is the installation section of C13.
ClaimInstallExample(section) ==
  /\ section.id = idInstallation
  /\ section.title = <<"I","n","s","t","a","l","l">>
  /\ Includes(section.content, ClaimFence)

\* C13 as stated: the example document yields title 'Foo', tagline 'Does
\* bar.', one feature {Fast, very fast}, one section (installation,
\* 'Install', content with the fenced block) and cta {Get Started,
\* #installation}.
C13_ExampleOneSection ==
  Done /\ ast = ClaimExample
    => /\ ClaimExampleHead
       /\ Len(result.sections) = 1
       /\ ClaimInstallExample(result.sections[1])

\* C13 amended: the example document yields the stated title, tagline,
\* feature and cta, and two sections: first the installation section
\* (id 'installation', title 'Install', content with the fenced block),
\* then the section of the '## Features' heading (id 'features', title
\* 'Features', content '- Fast - very fast').
C13_ExampleTwoSections ==
  Done /\ ast = ClaimExample
    => /\ ClaimExampleHead
       /\ Len(result.sections) = 2
       /\ ClaimInstallExample(result.sections[1])
       /\ result.sections[2] =
            [id      |-> <<"f","e","a","t","u","r","e","s">>,
             title   |-> tFeatures,
             content |-> <<"-"," ">> \o tFast \o tDashVeryFast]

\* C13 witness: parseReadme has returned on the example document.
C13_Witness ==
  /\ Done
  /\ ast = ClaimExample
  /\ Len(result.features) = 1
  /\ Len(result.sections) = 2

\* The eligible links of C14, as indices into the link list: those the
\* filter of extractSecondaryLinks lets through.
ClaimEligibleLinks ==
  SelectSeq([i \in 1..Len(links) |-> i], LAMBDA i :
    /\ links[i].href # result.cta.href
    /\ links[i].href # <<"#">>
    /\ \/ SubSeq(links[i].href, 1, 4) = <<"h","t","t","p">>
       \/ SubSeq(links[i].href, 1, 1) = <<"#">>)

\* The URL holds the name of a source-hosting or of a social site.
ClaimIsGithub(i) ==
  Includes(links[i].href, <<"g","i","t","h","u","b",".","c","o","m">>)
ClaimIsSocial(i) ==
  \/ Includes(links[i].href, <<"t","w","i","t","t","e","r",".","c","o","m">>)
  \/ Includes(links[i].href, <<"x",".","c","o","m">>)
  \/ Includes(links[i].href, <<"l","i","n","k","e","d","i","n",".","c","o","m">>)
  \/ Includes(links[i].href, <<"b","l","u","e","s","k","y">>)

\* The first eligible GitHub link (as a list of no or one index), the
\* eligible social links, and the eligible links that are neither that
\* GitHub link nor social.
ClaimGithub ==
  LET g == SelectSeq(ClaimEligibleLinks, ClaimIsGithub)
  IN  IF g = <<>> THEN <<>> ELSE <<Head(g)>>
ClaimSocial == SelectSeq(ClaimEligibleLinks, ClaimIsSocial)
ClaimOthers ==
  SelectSeq(ClaimEligibleLinks, LAMBDA i :
    ClaimGithub # <<i>> /\ ~ClaimIsSocial(i))

\* The first n elements of a sequence.
ClaimTake(seq, n) ==
  SubSeq(seq, 1, IF n < 0 THEN 0 ELSE IF n < Len(seq) THEN n ELSE Len(seq))

\* The links at the indices idx, as secondaryLinks holds them.
ClaimLinksAt(idx) ==
  [k \in 1..Len(idx) |->
     [label |-> links[idx[k]].label, href |-> links[idx[k]].href]]

\* C14 as stated: the GitHub link first, then up to two social links, then
\* other links filling the remaining slots up to a total of 4.
C14_FillsUpToFour ==
  Done =>
    /\ Len(result.secondaryLinks) <= 4
    /\ result.secondaryLinks =
         ClaimLinksAt(ClaimTake(ClaimGithub \o ClaimTake(ClaimSocial, 2)
                                \o ClaimOthers, 4))

\* What extractSecondaryLinks returns instead: the other links fill the
\* remaining slots up to a total of 3 only, so that the result never has
\* more than 3 entries and the cap of 4 never cuts anything.
C14_FillsUpToThree ==
  Done =>
    /\ Len(result.secondaryLinks) <= 3
    /\ LET top == ClaimGithub \o ClaimTake(ClaimSocial, 2)
       IN  result.secondaryLinks =
             ClaimLinksAt(top \o ClaimTake(ClaimOthers, 3 - Len(top)))

\* A document for C14: a GitHub link, a social link and more than one other link
\* are eligible, the GitHub link not being the first of them; three links
\* are returned, the GitHub link first.
C14_Witness ==
  /\ Done
  /\ ClaimGithub # <<>>
  /\ ClaimGithub # <<Head(ClaimEligibleLinks)>>
  /\ ClaimSocial # <<>>
  /\ Len(ClaimOthers) >= 2
  /\ Len(result.secondaryLinks) = 3
  /\ result.secondaryLinks[1].href = links[ClaimGithub[1]].href

\* The top-level headings of depth 2 or more, as indices into the document.
ClaimSectionHeads ==
  {i \in 1..Len(ast) : ast[i].type = "heading" /\ ast[i].depth >= 2}

\* The top-level nodes between the heading at h and the next heading of
\* depth 2 or more (or the end of the document).
ClaimNodesOf(h) ==
  LET later == {j \in ClaimSectionHeads : j > h}
      stop  == IF later = {} THEN Len(ast) + 1
               ELSE CHOOSE j \in later : \A k \in later : j <= k
  IN  SubSeq(ast, h + 1, stop - 1)

\* The content reconstructed from those nodes alone.
ClaimContentOf(h) ==
  Trim(Join([k \in 1..Len(ClaimNodesOf(h)) |-> nodeToString(ClaimNodesOf(h)[k])],
            sBlankLine))

\* The headings that have a section, in document order.
ClaimKeptHeads ==
  SelectSeq([i \in 1..Len(ast) |-> i],
            LAMBDA i : i \in ClaimSectionHeads /\ ClaimContentOf(i) # <<>>)

\* The segmenter has run.
ClaimSegmented == pc \notin {"title", "tagline", "links", "sections"}

\* C15: the segmenter yields, in document order, exactly one section per
\* top-level heading of depth >= 2 whose reconstructed content is not
\* whitespace-only; the content of each is built only from the nodes
\* between its heading and the next such heading, so that no node before
\* the first such heading contributes to any section.
C15_OneSectionPerHeading ==
  ClaimSegmented =>
    /\ Len(sections) = Len(ClaimKeptHeads)
    /\ \A k \in 1..Len(ClaimKeptHeads) :
         /\ sections[k].content = ClaimContentOf(ClaimKeptHeads[k])
         /\ sections[k].title =
              SectionTitle(extractTextFromNode(ast[ClaimKeptHeads[k]]))

\* C15 witness: a document with a paragraph before its first heading of
\* depth >= 2, a heading without content and a heading with content has
\* been segmented; the section is that of the heading with content.
C15_Witness ==
  /\ ClaimSegmented
  /\ ClaimSectionHeads # {}
  /\ \E i \in 1..Len(ast) :
       /\ ast[i].type = "paragraph"
       /\ \A h \in ClaimSectionHeads : i < h
  /\ \E h \in ClaimSectionHeads : ClaimContentOf(h) = <<>>
  /\ Len(sections) = 1
  /\ Len(ClaimKeptHeads) = 1

\* The document of C16: '## Installation' followed by a fenced block.
ClaimInstallDoc ==
  ast = <<HeadingOf(2, tInstallation), Code(tBash, tNpmIFoo)>>

\* A code block written as a fence: its language tag after the opening
\* marks, its raw value on the lines between.
ClaimFenceOf(code) ==
  <<"BACKTICK","BACKTICK","BACKTICK">> \o code.lang \o <<"\n">>
    \o code.value \o <<"\n">> \o <<"BACKTICK","BACKTICK","BACKTICK">>

\* The example of C16: one section, 'Install', 'installation', holding the
\* fence.
ClaimInstallRoundTrip ==
  (Done /\ ClaimInstallDoc) =>
    /\ Len(result.sections) = 1
    /\ result.sections[1].title = <<"I","n","s","t","a","l","l">>
    /\ result.sections[1].id = <<"i","n","s","t","a","l","l","a","t","i","o","n">>
    /\ Includes(result.sections[1].content, ClaimFenceOf(ast[2]))

\* The heading of the section a top-level node at index j lies in (0:
\* none), and the position of that section among the segmenter's sections.
ClaimHeadOf(j) ==
  LET before == {h \in ClaimSectionHeads : h < j}
  IN  IF before = {} THEN 0
      ELSE CHOOSE h \in before : \A k \in before : k <= h
ClaimSectionAt(h) ==
  LET at == {k \in 1..Len(ClaimKeptHeads) : ClaimKeptHeads[k] = h}
  IN  IF at = {} THEN 0 ELSE CHOOSE k \in at : TRUE

\* The code blocks of the top-level node at index j, at any depth.
ClaimCodeBlocksIn(j) ==
  {n \in {VisitNode(ast[j])[i] : i \in 1..Len(VisitNode(ast[j]))} :
     n.type = "code"}

\* C16 as stated: the example, and every code block inside a section is
\* re-serialized in the section's content as a fence carrying its language
\* tag and unchanged raw value.
C16_EveryCodeBlockFenced ==
  /\ ClaimInstallRoundTrip
  /\ ClaimSegmented =>
       \A j \in 1..Len(ast) : \A code \in ClaimCodeBlocksIn(j) :
         ClaimHeadOf(j) # 0 =>
           /\ ClaimSectionAt(ClaimHeadOf(j)) # 0
           /\ Includes(sections[ClaimSectionAt(ClaimHeadOf(j))].content,
                       ClaimFenceOf(code))

\* What holds instead: the example, and every code block that is a
\* top-level node of a section (not nested in a list item or a blockquote) is
\* re-serialized in the section's content as a fence carrying its language
\* tag and unchanged raw value.
C16_TopLevelCodeBlockFenced ==
  /\ ClaimInstallRoundTrip
  /\ ClaimSegmented =>
       \A j \in 1..Len(ast) :
         (ast[j].type = "code" /\ ClaimHeadOf(j) # 0) =>
           /\ ClaimSectionAt(ClaimHeadOf(j)) # 0
           /\ Includes(sections[ClaimSectionAt(ClaimHeadOf(j))].content,
                       ClaimFenceOf(ast[j]))

\* The example of C16 happens: the example document has been processed and has one
\* section holding the fence with its language tag.
C16_Witness ==
  /\ Done
  /\ ClaimInstallDoc
  /\ Len(result.sections) = 1
  /\ Includes(result.sections[1].content, ClaimFenceOf(ast[2]))
  /\ ast[2].lang # <<>>

\* A section with a top-level code block without a language tag and one
\* with a value that starts with blanks.
C16_WitnessPlainFence ==
  /\ ClaimSegmented
  /\ \E j \in 1..Len(ast) :
       ast[j].type = "code" /\ ast[j].lang = <<>> /\ ClaimHeadOf(j) # 0
  /\ \E j \in 1..Len(ast) :
       ast[j].type = "code" /\ ast[j].value # <<>> /\ ClaimHeadOf(j) # 0
         /\ Head(ast[j].value) = " "

\* Whitespace runs replaced by one hyphen each, then every character other
\* than a-z, 0-9 and the hyphen removed.
ClaimHyphenated(s) ==
  LET keep == SelectSeq([i \in 1..Len(s) |-> i], LAMBDA i :
                s[i] \notin Whitespace \/ i = 1 \/ s[i - 1] \notin Whitespace)
  IN  [k \in 1..Len(keep) |->
         IF s[keep[k]] \in Whitespace THEN "-" ELSE s[keep[k]]]
ClaimSlugChars ==
  {"a","b","c","d","e","f","g","h","i","j","k","l","m","n","o","p","q","r",
   "s","t","u","v","w","x","y","z","0","1","2","3","4","5","6","7","8","9",
   "-"}
ClaimOnlySlugChars(s) == SelectSeq(s, LAMBDA c : c \in ClaimSlugChars)

\* The id as C17 words it: lower-cased, glyphs stripped, whitespace runs
\* replaced by hyphens, other characters removed.
ClaimSlug(headingText) ==
  ClaimOnlySlugChars(ClaimHyphenated(
    SelectSeq(ToLowerCase(headingText), LAMBDA c : c \notin Glyphs)))

\* The same with the text trimmed after the glyphs are stripped.
ClaimSlugTrimmed(headingText) ==
  ClaimOnlySlugChars(ClaimHyphenated(Trim(
    SelectSeq(ToLowerCase(headingText), LAMBDA c : c \notin Glyphs))))

\* The text of the heading of the k-th section of the segmenter.
ClaimHeadingText(k) == extractTextFromNode(ast[ClaimKeptHeads[k]])

\* Every id of the result is the id of a section of the segmenter and
\* consists only of lower-case letters, digits and hyphens.
ClaimResultIds ==
  \A i \in 1..Len(result.sections) :
    /\ \E k \in 1..Len(sections) : result.sections[i].id = sections[k].id
    /\ \A j \in 1..Len(result.sections[i].id) :
         result.sections[i].id[j] \in ClaimSlugChars

\* C17 as stated: every section id is the heading text lower-cased with
\* decorative glyphs stripped, whitespace runs replaced by hyphens and
\* every character other than a-z, 0-9 and hyphen removed.
C17_IdIsSlug ==
  Done =>
    /\ ClaimResultIds
    /\ \A k \in 1..Len(sections) :
         sections[k].id = ClaimSlug(ClaimHeadingText(k))

\* C17 amended: every section id is the heading text lower-cased with
\* decorative glyphs stripped, then trimmed of leading and trailing
\* whitespace, then with whitespace runs replaced by hyphens and every
\* character other than a-z, 0-9 and hyphen removed; so every id consists
\* only of lower-case letters, digits and hyphens.
C17_IdIsTrimmedSlug ==
  Done =>
    /\ ClaimResultIds
    /\ \A k \in 1..Len(sections) :
         sections[k].id = ClaimSlugTrimmed(ClaimHeadingText(k))

\* C17 witness: the result holds a section whose heading text starts with
\* a blank and one whose heading text holds capitals, a run of blanks,
\* digits and punctuation; neither id starts with a hyphen.
C17_Witness ==
  /\ Done
  /\ \E k \in 1..Len(sections) :
       /\ Head(ClaimHeadingText(k)) = " "
       /\ sections[k].id = <<"u","s","a","g","e">>
       /\ \E i \in 1..Len(result.sections) :
            result.sections[i].id = sections[k].id
  /\ \E k \in 1..Len(sections) :
       /\ ClaimHeadingText(k) # ToLowerCase(ClaimHeadingText(k))
       /\ Len(sections[k].id) < Len(ClaimHeadingText(k)) - 1
       /\ \E j \in 1..Len(sections[k].id) : sections[k].id[j] = "-"
       /\ \E j \in 1..Len(sections[k].id) : sections[k].id[j] \in Digits

\* The badges of the result, and their labels with the case folded.
ClaimBadges == result.badges[1]
ClaimFolded(k) == ToLowerCase(ClaimBadges[k].label)

\* The document of two badge images whose alt texts differ only in case.
ClaimTwoImages ==
  ast = << Paragraph(<<Image(uBadgeA, tMitLicense)>>),
           Paragraph(<<Image(uBadgeB, tMitLicenseLower)>>) >>

\* C18: badges has at most 5 entries and no two entries have labels that
\* are equal ignoring case, whichever of the three sources they come from;
\* two images whose alt texts differ only in case yield exactly one badge.
C18_BadgesCappedDistinct ==
  Done =>
    /\ Len(ClaimBadges) <= 5
    /\ \A i, j \in 1..Len(ClaimBadges) :
         i # j => ClaimFolded(i) # ClaimFolded(j)
    /\ ClaimTwoImages =>
         ClaimBadges = << [label |-> tMitLicense, href |-> <<uBadgeA>>] >>

\* C18 witness: the document holds two badge images whose alt texts differ
\* only in case and more technology words than there is room for; the
\* result has five badges, one from the images and four from the words.
C18_Witness ==
  /\ Done
  /\ \E m, n \in 1..Len(VisitType(ast, "image")) :
       LET a == VisitType(ast, "image")[m].alt
           b == VisitType(ast, "image")[n].alt
       IN  a # b /\ ToLowerCase(a) = ToLowerCase(b)
  /\ Len(ClaimBadges) = 5
  /\ ClaimBadges[1].label = tMitLicense
  /\ \A k \in 2..5 : ClaimBadges[k].href = <<>>
  /\ \E p \in 1..Len(ast) :
       /\ ast[p].type = "paragraph"
       /\ ast[p].children[1].type = "text"
       /\ Includes(ast[p].children[1].value, tTypescript)
       /\ \A k \in 1..5 : ClaimBadges[k].label # tTypescript

\* The example of C18 happens: the two images, one badge.
C18_WitnessTwoImages == Done /\ ClaimTwoImages /\ Len(ClaimBadges) = 1

\* Badges of both other sources: a badge image and a badge link whose
\* labels are equal ignoring case have given one badge, and a second link
\* a second badge.
C18_WitnessLinks ==
  /\ Done
  /\ Len(ClaimBadges) = 2
  /\ ClaimBadges[1].label = tMitLicense
  /\ \E k \in 1..Len(links) : links[k].label = tMitLicenseUpper
  /\ ClaimBadges[2].label = tLicense

\* The top-level headings whose lower-cased text holds a feature keyword.
ClaimFeatureHeads ==
  {i \in 1..Len(ast) :
     /\ ast[i].type = "heading"
     /\ IncludesAny(ToLowerCase(extractTextFromNode(ast[i])),
                    Append(featureKeywords, sSparkles))}

\* The feature list: the first list among the four nodes that follow the
\* first such heading, no heading of depth 1 or 2 standing between
\* (0: no feature list is found).
ClaimFeatureList ==
  IF ClaimFeatureHeads = {} THEN 0
  ELSE
    LET h     == CHOOSE i \in ClaimFeatureHeads :
                   \A j \in ClaimFeatureHeads : i <= j
        lists == {j \in (h + 1)..(h + 4) :
                    /\ j <= Len(ast)
                    /\ ast[j].type = "list"
                    /\ \A k \in (h + 1)..(j - 1) :
                         /\ ast[k].type # "list"
                         /\ ~(ast[k].type = "heading" /\ ast[k].depth <= 2)}
    IN  IF lists = {} THEN 0 ELSE CHOOSE j \in lists : TRUE

\* The non-blank texts of the bold spans inside paragraphs, in document
\* order, trimmed.
ClaimBoldTexts ==
  LET paras == VisitType(ast, "paragraph")
      spans == Concat([p \in 1..Len(paras) |->
                 VisitType(<<paras[p]>>, "strong")])
      texts == [i \in 1..Len(spans) |-> Trim(extractTextFromNode(spans[i]))]
  IN  SelectSeq(texts, LAMBDA t : t # <<>>)

\* The non-blank item texts of the feature list, in the order the items
\* are met.
ClaimItemTexts ==
  LET items == VisitType(<<ast[ClaimFeatureList]>>, "listItem")
      texts == [i \in 1..Len(items) |-> extractTextFromNode(items[i])]
  IN  SelectSeq(texts, LAMBDA t : Trim(t) # <<>>)

\* C19: features never has more than 6 entries and keeps discovery order
\* (the features of a feature list are those of its first 6 non-blank
\* items, in order); when no feature list is found, the features are the
\* first up-to-5 non-empty (once trimmed) bold spans found inside
\* paragraphs in document order, each as a title-only feature.
C19_FeaturesCappedOrdered ==
  Done =>
    LET list  == ClaimFeatureList
        bold  == IF list = 0 THEN ClaimTake(ClaimBoldTexts, 5) ELSE <<>>
        items == IF list # 0 THEN ClaimTake(ClaimItemTexts, 6) ELSE <<>>
    IN  /\ Len(result.features) <= 6
        /\ list = 0 =>
             result.features =
               [k \in 1..Len(bold) |->
                  [title |-> bold[k], desc |-> <<>>, icon |-> <<>>]]
        /\ (list # 0 /\ items # <<>>) =>
             result.features =
               [k \in 1..Len(items) |-> FeatureOfItem(items[k])]

\* C19 witness: no feature list is found in a document with more than
\* five non-blank bold spans and a blank one; five title-only features.
C19_Witness ==
  /\ Done
  /\ ClaimFeatureList = 0
  /\ Len(ClaimBoldTexts) > 5
  /\ \E n \in {VisitType(ast, "strong")[i] :
                 i \in 1..Len(VisitType(ast, "strong"))} :
       Trim(extractTextFromNode(n)) = <<>>
  /\ Len(result.features) = 5

\* A feature list of more than six items has given six features.
C19_WitnessList ==
  /\ Done
  /\ ClaimFeatureList # 0
  /\ Len(ClaimItemTexts) > 6
  /\ Len(result.features) = 6

\* A bold span in a heading, none in a paragraph: no feature.
C19_WitnessHeadingBold ==
  /\ Done
  /\ VisitType(ast, "strong") # <<>>
  /\ ClaimFeatureList = 0
  /\ result.features = <<>>

\* The images that follow the first depth-1 heading in document order.
ClaimImagesAfterTitle ==
  LET nodes == Visit(ast)
      h1s   == {i \in 1..Len(nodes) :
                  nodes[i].type = "heading" /\ nodes[i].depth = 1}
      first == IF h1s = {} THEN Len(nodes) + 1
               ELSE CHOOSE i \in h1s : \A j \in h1s : i <= j
  IN  SelectSeq(SubSeq(nodes, first + 1, Len(nodes)),
                LAMBDA n : n.type = "image")

\* The alt text names a screenshot, demo, preview, logo, hero or banner.
ClaimPreferredAlt(alt) ==
  \/ Includes(ToLowerCase(alt), <<"s","c","r","e","e","n","s","h","o","t">>)
  \/ Includes(ToLowerCase(alt), <<"d","e","m","o">>)
  \/ Includes(ToLowerCase(alt), <<"p","r","e","v","i","e","w">>)
  \/ Includes(ToLowerCase(alt), <<"l","o","g","o">>)
  \/ Includes(ToLowerCase(alt), <<"h","e","r","o">>)
  \/ Includes(ToLowerCase(alt), <<"b","a","n","n","e","r">>)

C20_WitnessBeforeTitle ==
  /\ Done
  /\ ast # <<>>
  /\ ast[1].type = "paragraph"
  /\ VisitType(<<ast[1]>>, "image") # <<>>
  /\ ClaimImagesAfterTitle # <<>>
  /\ result.heroImage # <<>>
  /\ result.heroImage[1].url # VisitType(<<ast[1]>>, "image")[1].url

\* The stats of the result (none: the empty sequence).
ClaimStats == IF result.stats = <<>> THEN <<>> ELSE result.stats[1]

\* The paragraphs and list items of the document, in document order.
ClaimStatBlocks ==
  SelectSeq(Visit(ast), LAMBDA n : n.type \in {"paragraph", "listItem"})

\* The number-plus-word matches of a sequence of blocks, block after block.
ClaimMatchesOf(blocks) ==
  Concat([i \in 1..Len(blocks) |->
            StatMatches(extractTextFromNode(blocks[i]), 1)])

\* C21: stats holds at most 4 {value, label} pairs, and they are the first
\* matches of the number-plus-word pattern taken over paragraphs and list
\* items in document order: a match in an earlier block always precedes a
\* match in a later block, whether the blocks are paragraphs or list items.
C21_StatsInDocumentOrder ==
  Done =>
    /\ Len(ClaimStats) <= 4
    /\ ClaimStats = ClaimTake(ClaimMatchesOf(ClaimStatBlocks), 4)

\* What extractStats returns instead: the first 4 matches of all the
\* paragraphs, followed by those of all the list items.
C21_StatsInTwoPasses ==
  Done =>
    /\ Len(ClaimStats) <= 4
    /\ ClaimStats =
         ClaimTake(ClaimMatchesOf(VisitType(ast, "paragraph"))
                   \o ClaimMatchesOf(VisitType(ast, "listItem")), 4)

\* A list item with a match stands before a paragraph with a match, and
\* the last of the stats is the match of the list item.
C21_WitnessListFirst ==
  /\ Done
  /\ Len(ast) = 2
  /\ ast[1].type = "list"
  /\ ast[2].type = "paragraph"
  /\ Len(ClaimStats) = 3
  /\ ClaimStats[3] = ClaimStats[1]
  /\ ClaimStats[2] # ClaimStats[1]

\* More than four matches in the paragraphs: four stats.
C21_WitnessCapped ==
  /\ Done
  /\ Len(ClaimMatchesOf(VisitType(ast, "paragraph"))) > 4
  /\ Len(ClaimStats) = 4

\* The techStack of the result (none: the empty sequence).
ClaimTechStack == IF result.techStack = <<>> THEN <<>> ELSE result.techStack[1]

\* C22: techStack has at most 8 entries, contains no repeated entry, and
\* every entry is lower-case, including entries that come from the
\* declared language tag of a code block.
C22_TechStackLowerCase ==
  Done =>
    /\ Len(ClaimTechStack) <= 8
    /\ \A i, j \in 1..Len(ClaimTechStack) :
         i # j => ClaimTechStack[i] # ClaimTechStack[j]
    /\ \A i \in 1..Len(ClaimTechStack) :
         ClaimTechStack[i] = ToLowerCase(ClaimTechStack[i])

\* What holds of techStack: at most 8 entries, no entry twice in the same
\* spelling.
C22_TechStackCappedDistinct ==
  Done =>
    /\ Len(ClaimTechStack) <= 8
    /\ \A i, j \in 1..Len(ClaimTechStack) :
         i # j => ClaimTechStack[i] # ClaimTechStack[j]

\* A language tag with capitals is an entry, beside the same name in small
\* letters taken from a paragraph.
C22_WitnessCapitalTag ==
  /\ Done
  /\ \E i, j \in 1..Len(ClaimTechStack) :
       /\ i < j
       /\ ClaimTechStack[j] # ToLowerCase(ClaimTechStack[j])
       /\ ClaimTechStack[i] = ToLowerCase(ClaimTechStack[j])

\* More than eight technologies are named: eight entries.
C22_WitnessCapped ==
  /\ Done
  /\ Len(ClaimTechStack) = 8
  /\ \E c \in 1..Len(ast) :
       ast[c].type = "code" /\ ast[c].lang # <<>>
         /\ \A i \in 1..8 : ClaimTechStack[i] # ast[c].lang

\* The testimonials of the result (none: the empty sequence).
ClaimTestimonials ==
  IF result.testimonials = <<>> THEN <<>> ELSE result.testimonials[1]

\* The texts of the block quotes, in document order.
ClaimQuoteTexts ==
  LET quotes == VisitType(ast, "blockquote")
  IN  [i \in 1..Len(quotes) |-> extractTextFromNode(quotes[i])]

\* testimonials holds one entry for each of the first three of the texts
\* given, in order, its quote being a part of the text.
ClaimTestimonialsOf(texts) ==
  /\ Len(ClaimTestimonials) = Len(ClaimTake(texts, 3))
  /\ \A k \in 1..Len(ClaimTestimonials) :
       /\ ClaimTestimonials[k].quote # <<>>
       /\ Includes(texts[k], ClaimTestimonials[k].quote)

C23_WitnessUpper ==
  /\ Done
  /\ Len(ClaimQuoteTexts) = 1
  /\ Len(ClaimQuoteTexts[1]) = 300
  /\ ClaimTestimonials = <<>>

\* More than three block quotes qualify: three testimonials.
C23_WitnessCapped ==
  /\ Done
  /\ Len(SelectSeq(ClaimQuoteTexts, LAMBDA t : 20 < Len(t) /\ Len(t) < 300)) > 3
  /\ Len(ClaimTestimonials) = 3

\* The list adjacent to the heading at h: the first list among the four
\* nodes that follow it, no heading of depth 1 or 2 standing between
\* (0: none).
ClaimListOf(h) ==
  LET lists == {j \in (h + 1)..(h + 4) :
                  /\ j <= Len(ast)
                  /\ ast[j].type = "list"
                  /\ \A k \in (h + 1)..(j - 1) :
                       /\ ast[k].type # "list"
                       /\ ~(ast[k].type = "heading" /\ ast[k].depth <= 2)}
  IN  IF lists = {} THEN 0 ELSE CHOOSE j \in lists : TRUE

\* The features of the items of the list at j: one for each non-blank
\* item, the first six.
ClaimFeaturesOfList(j) ==
  LET items == VisitType(<<ast[j]>>, "listItem")
      texts == [i \in 1..Len(items) |-> extractTextFromNode(items[i])]
      kept  == ClaimTake(SelectSeq(texts, LAMBDA t : Trim(t) # <<>>), 6)
  IN  [k \in 1..Len(kept) |-> FeatureOfItem(kept[k])]

\* The feature headings that have an adjacent list.
ClaimHeadsWithList == {h \in ClaimFeatureHeads : ClaimListOf(h) # 0}

\* C28: whenever some heading matching a feature keyword is followed,
\* within the lookahead window and before another heading of depth <= 2,
\* by a list, the features are taken from that list's items; the bold-span
\* fallback is used only when no feature-keyword heading in the document
\* has such an adjacent list.
C28_AnyFeatureHeading ==
  Done =>
    LET heads == ClaimHeadsWithList
    IN  (\E h \in heads : ClaimFeaturesOfList(ClaimListOf(h)) # <<>>) =>
          \E h \in heads :
            result.features = ClaimFeaturesOfList(ClaimListOf(h))

\* What extractFeatures does instead: only the first heading matching a
\* feature keyword is looked at; when it has no adjacent list the
\* bold-span fallback is used, whatever follows later headings.
C28_FirstFeatureHeadingOnly ==
  Done =>
    LET first == IF ClaimFeatureHeads = {} THEN 0
                 ELSE CHOOSE i \in ClaimFeatureHeads :
                        \A j \in ClaimFeatureHeads : i <= j
        list  == IF first = 0 THEN 0 ELSE ClaimListOf(first)
        bold  == ClaimTake(ClaimBoldTexts, 5)
    IN  IF list # 0 /\ ClaimFeaturesOfList(list) # <<>>
        THEN result.features = ClaimFeaturesOfList(list)
        ELSE result.features =
               [k \in 1..Len(bold) |->
                  [title |-> bold[k], desc |-> <<>>, icon |-> <<>>]]

\* A feature heading without a list stands before a feature heading with
\* a list, and the features are not those of the list.
C28_WitnessLaterHeading ==
  /\ Done
  /\ \E h \in ClaimHeadsWithList :
       /\ ClaimFeaturesOfList(ClaimListOf(h)) # <<>>
       /\ \E g \in ClaimFeatureHeads : g < h /\ ClaimListOf(g) = 0
       /\ result.features # ClaimFeaturesOfList(ClaimListOf(h))

\* Every list item of the document holds paragraphs only, so that all the
\* text of the list items sits in paragraphs.
ClaimItemsHoldParagraphs ==
  \A n \in {VisitType(ast, "listItem")[i] :
              i \in 1..Len(VisitType(ast, "listItem"))} :
    \A c \in 1..Len(n.children) : n.children[c].type = "paragraph"

\* C30: each occurrence of the number-plus-word pattern in the document
\* text contributes at most one entry to stats: text that sits in a
\* paragraph inside a list item is not counted once as a paragraph and
\* again as a list item (stats has no more entries than the paragraphs,
\* which hold all the text that is searched, have occurrences).
C30_CountedOnce ==
  (Done /\ ClaimItemsHoldParagraphs) =>
    Len(ClaimStats) <= Len(ClaimMatchesOf(VisitType(ast, "paragraph")))

\* A list item holding one paragraph with one occurrence has given two
\* equal stats.
C30_WitnessTwice ==
  /\ Done
  /\ Len(ast) = 1
  /\ ast[1].type = "list"
  /\ Len(ClaimMatchesOf(VisitType(ast, "paragraph"))) = 1
  /\ Len(ClaimStats) = 2
  /\ ClaimStats[1] = ClaimStats[2]


ClaimShownFor(text) ==
  IF IsBlank(text) THEN Undefined ELSE Defined(PageModelOf(text.tree))

ClaimLatestSettled == effects[Len(effects)].settled

C29_NeverStale ==
  /\ [][pageModel' # pageModel => pageModel' = ClaimShownFor(markdown)]_vars
  /\ [](ClaimLatestSettled => pageModel = ClaimShownFor(markdown))

\* After two edits or more every run of the effect has completed, the run
\* before the last was a parse of another text, and the model of the latest
\* text is displayed.
C29_Witness ==
  /\ Len(effects) >= 3
  /\ \A i \in 1..Len(effects) : effects[i].settled
  /\ effects[Len(effects) - 1].kind = "parse"
  /\ effects[Len(effects) - 1].text.tree # markdown.tree
  /\ ~IsBlank(markdown)
  /\ pageModel = Defined(PageModelOf(markdown.tree))

\* A text became blank while a parse was pending: the parse completed, the
\* timer fired, and null is displayed.
C29_WitnessBlank ==
  /\ Len(effects) >= 3
  /\ \A i \in 1..Len(effects) : effects[i].settled
  /\ effects[Len(effects) - 1].kind = "parse"
  /\ IsBlank(markdown)
  /\ pageModel = Undefined


\* C25: in the landing page each displayed section shows the raw content of
\* the current section or markup rendered from that content, never markup
\* rendered from other content, whatever the order of completions and the
\* changes of the model.
ClaimShownSections == IF model = Undefined THEN <<>> ELSE model[1].sections

C25_NeverStaleMarkup ==
  \A k \in 1..Len(ClaimShownSections) :
    LET s == ClaimShownSections[k]
    IN Displayed(s) \in {s.content, Rendered(s.content)}

\* C25, within one model: a model whose section ids are distinct displays
\* for each section its content or the markup of its content while no
\* earlier run is behind it.
C25_FirstModelOnly ==
  Len(renders) = 1 /\ model # Undefined
    /\ (\A j, k \in 1..Len(ClaimShownSections) :
          ClaimShownSections[j].id = ClaimShownSections[k].id => j = k)
  => C25_NeverStaleMarkup


\* C24: when the rendering of one section fails, only that section falls
\* back to its raw content.  In the page, once the renderings of the run
\* for the displayed model have all settled, every section whose rendering
\* resolved shows its markup; and an export in which a rendering failed is
\* not aborted.
ClaimLatestRun == renders[Len(renders)]

ClaimIdOnce(secs, k) == \A j \in 1..Len(secs) : secs[j].id = secs[k].id => j = k

C24_FailureIsLocal ==
  /\ (renders # <<>> /\ ClaimLatestRun.pending = {}
        /\ ClaimLatestRun.failedAt # {})
     => \A k \in 1..Len(ClaimLatestRun.sections) \ ClaimLatestRun.failedAt :
          ClaimIdOnce(ClaimLatestRun.sections, k)
          => Displayed(ClaimLatestRun.sections[k])
               = Rendered(ClaimLatestRun.sections[k].content)
  /\ (download # Undefined => download[1].status # "aborted")

\* C24, the page alone: what C24_FailureIsLocal says of the landing page.
C24_PageFailureIsLocal ==
  (renders # <<>> /\ ClaimLatestRun.pending = {}
     /\ ClaimLatestRun.failedAt # {})
  => \A k \in 1..Len(ClaimLatestRun.sections) \ ClaimLatestRun.failedAt :
       ClaimIdOnce(ClaimLatestRun.sections, k)
       => Displayed(ClaimLatestRun.sections[k])
            = Rendered(ClaimLatestRun.sections[k].content)

\* C24, the export alone: an export is never aborted.
C24_ExportNotAborted == download # Undefined => download[1].status # "aborted"

\* C24, without failures: when every rendering of the only run resolved and
\* the callback ran, every section with an id of its own shows its markup.
C24_AllRenderedWhenNoneFails ==
  (Len(renders) = 1 /\ ClaimLatestRun.applied)
  => \A k \in 1..Len(ClaimLatestRun.sections) :
       ClaimIdOnce(ClaimLatestRun.sections, k)
       => Displayed(ClaimLatestRun.sections[k])
            = Rendered(ClaimLatestRun.sections[k].content)


\* C26: in the exported document every literal string of the model is
\* escaped so that it cannot leave the position it is inserted in.  Read
\* back as HTML, each text position gives the string it was made of, and
\* each tag has exactly the attributes of the template, whose values give
\* the strings they were made of.
RECURSIVE ClaimDecode(_)
ClaimDecode(s) ==
  IF s = <<>> THEN <<>>
  ELSE IF StartsWith(s, <<"&","a","m","p",";">>)
  THEN <<"&">> \o ClaimDecode(SubSeq(s, 6, Len(s)))
  ELSE IF StartsWith(s, <<"&","l","t",";">>)
  THEN <<"<">> \o ClaimDecode(SubSeq(s, 5, Len(s)))
  ELSE IF StartsWith(s, <<"&","g","t",";">>)
  THEN <<">">> \o ClaimDecode(SubSeq(s, 5, Len(s)))
  ELSE <<Head(s)>> \o ClaimDecode(Tail(s))

\* The first index from i on at which s has the character c, Len(s) + 1
\* when there is none.
ClaimNextAt(s, c, i) ==
  LET at == {j \in i..Len(s) : s[j] = c}
  IN IF at = {} THEN Len(s) + 1 ELSE CHOOSE j \in at : \A k \in at : j <= k

\* The values of the attributes of the first tag of a fragment, as a reader
\* of HTML finds them: a value starts after =" and ends before the next
\* quotation mark; the tag ends at the first > outside a value.
RECURSIVE ClaimAttrScan(_, _)
ClaimAttrScan(s, i) ==
  IF i >= Len(s) \/ s[i] = ">" THEN <<>>
  ELSE IF s[i] = "=" /\ s[i + 1] = "\""
  THEN LET close == ClaimNextAt(s, "\"", i + 2)
       IN <<ClaimDecode(SubSeq(s, i + 2, close - 1))>>
            \o ClaimAttrScan(s, close + 1)
  ELSE ClaimAttrScan(s, i + 1)

ClaimAttrValues(fragment) == ClaimAttrScan(fragment, 1)

\* The text of the first element of a fragment whose tag has no attribute
\* value holding >: from the end of the tag to the next <.
ClaimTextOf(fragment) ==
  LET open == ClaimNextAt(fragment, ">", 1)
      close == ClaimNextAt(fragment, "<", open + 1)
  IN ClaimDecode(SubSeq(fragment, open + 1, close - 1))

\* An export has returned its document.
ClaimExported == download # Undefined /\ download[1].html # Undefined

ClaimTextsKept ==
  LET m == download[1].model
      d == download[1].html[1]
  IN /\ ClaimTextOf(d.title) = m.title
     /\ ClaimTextOf(d.headline) = m.title
     /\ ClaimTextOf(d.tagline) = m.tagline
     /\ \A i \in 1..Len(d.badges) :
          ClaimTextOf(d.badges[i]) = m.badges[1][i].label

ClaimAttributesKept ==
  LET m == download[1].model
      d == download[1].html[1]
  IN /\ ClaimAttrValues(d.cta)
          = <<m.cta.href, <<"b","t","n"," ","b","t","n","-">>
                            \o <<"p","r","i","m","a","r","y">>>>
     /\ \A i \in 1..Len(d.secondaryLinks) :
          ClaimAttrValues(d.secondaryLinks[i])
            = <<m.secondaryLinks[i].href,
                <<"b","t","n"," ","b","t","n","-">>
                  \o <<"s","e","c","o","n","d","a","r","y">>>>
     /\ m.heroImage # Undefined
        => ClaimAttrValues(d.heroImage)
             = <<m.heroImage[1].url, m.heroImage[1].alt,
                 <<"h","e","r","o","-","i","m","a","g","e">>>>

C26_NoBreakOut == ClaimExported => ClaimTextsKept /\ ClaimAttributesKept

\* C26, the text positions alone: title, tagline and badge labels are read
\* back as they are in the model.
C26_TextPositionsKept == ClaimExported => ClaimTextsKept

\* C26, the attribute positions alone.
C26_AttributePositionsKept == ClaimExported => ClaimAttributesKept

\* A document was exported whose title holds < > and &.
C26_WitnessTaggedTitle ==
  /\ ClaimExported
  /\ download[1].model.title = tTagged

\* A document was exported whose hero image has a quotation mark in its alt.
C26_WitnessQuotedAlt ==
  /\ ClaimExported
  /\ download[1].model.heroImage # Undefined
  /\ download[1].model.heroImage[1].alt = tSayHi

=============================================================================
